---------------------------- MODULE Spec2Model ----------------------------
(***************************************************************************)
(* Model of crates/e2e-test-utils/src/testsuite/actions.rs: the actions    *)
(* that drive a set of execution clients through the Engine API, and the   *)
(* Sequence that runs them one after another against one Environment.      *)
(*                                                                         *)
(* An action is an async fn: it runs alone against the Environment and     *)
(* suspends at each `.await` on a peer call.  Each handler is therefore    *)
(* split at its awaits: a step that issues the call, and a step that takes *)
(* the reply and runs the code up to the next await or return.             *)
(***************************************************************************)
EXTENDS Integers, Sequences, FiniteSets, TLC

VARIABLES
    env,        \* the Environment: the fields the actions read and write
    num_clients,\* env.node_clients.len(); the list is fixed for the run
    net,        \* what each peer answers to each call during the running action
    program,    \* the actions handed to the outermost Sequence
    stack,      \* the composite actions (Sequence) being executed, innermost last
    cur,        \* the kind of the leaf action being executed, or "none"
    pc,         \* the position of the leaf action
    loc,        \* the local variables of the leaf action
    env0,       \* the Environment as it was when the leaf action began
    calls,      \* the peer calls the leaf action has issued, in order
    inflight,   \* the peer calls issued and not yet returned
    ret,        \* the result an action has just returned to its caller, or "none"
    history     \* the leaf actions completed so far, each with its result

vars == <<env, num_clients, net, program, stack, cur, pc, loc, env0, calls,
          inflight, ret, history>>

(***************************************************************************)
(* Bounds of the model.                                                    *)
(***************************************************************************)
MaxPeers == 3
MaxCheckPeers == 2
MaxNumber == 2
MaxTime == 2
MaxIncrement == 2
MaxActions == 3
MaxBlocks == 3

(***************************************************************************)
(* Values.                                                                 *)
(***************************************************************************)
\* Option<T>: None, Some(x).
None == <<>>
Some(x) == <<x>>
IsSome(o) == o # <<>>
Unwrap(o) == o[1]

\* B256 values; 0 is B256::ZERO.
B256 == {0, 1}
Addresses == {0, 1}
PayloadIds == {1, 2}
BlockNumbers == 0..MaxNumber

\* HashMap<u64, V>: get and insert.
EmptyMap == <<>>
MapGet(m, k) == IF k \in DOMAIN m THEN Some(m[k]) ELSE None
MapInsert(m, k, v) == [x \in (DOMAIN m) \cup {k} |-> IF x = k THEN v ELSE m[x]]

\* Result<T> of a peer call: Err(e), Ok(v).  NotCalled stands for the reply to
\* a call the action cannot make to a peer, because that peer's earlier reply
\* stops the action or makes it skip the peer.
RpcErr == [tag |-> "Err"]
NotCalled == [tag |-> "NotCalled"]
RpcOk(v) == [tag |-> "Ok", val |-> v]
IsRpcErr(r) == r.tag = "Err"

Peers == 0..(num_clients - 1)

\* The results of an action: "Ok", or the message of the error it returns.
ErrTransport == "Err: peer call failed"
ErrNoClients == "Err: No node clients available"
ErrNoLatestBlockInfo == "Err: No latest block information available"
ErrNoProducer == "Err: No suitable block producer found"
ErrNoPayloadId == "Err: Cannot find payload_id"
ErrNoHeader == "Err: No latest header found from rpc"
ErrNoBuiltPayload == "Err: No next built payload found"
ErrNotAccepted == "Err: No clients passed payload acceptance checks"
ErrNoPayloadRoot == "Err: No parent beacon block root for next new payload"
ErrNoBlock == "Err: No latest block found from rpc"
ErrNoBlockInfo == "Err: No latest block info found"
ErrBlockNumber == "Err: Client block number does not match expected block number"
ErrNoBlockRoot == "Err: No parent beacon block root for latest block"
ErrRootMismatch == "Err: Parent beacon block root mismatch"
ErrNotBroadcast == "Err: Failed to successfully broadcast payload to any client"
ErrForkchoice == "Err: Failed to broadcast forkchoice"
ErrNodeIndex == "Err: Node index out of bounds"
ErrLatestBlockNotFound == "Err: Latest block not found"
ErrNoPayloadIdReturned == "Err: No payload ID returned from forkchoiceUpdated"
ErrStatusNotValid == "Err: Payload status not valid"
ErrNoAttributes == "Err: No payload attributes found for latest block"
ErrNoPayloadIdForkChoice == "Err: No payload ID returned from forkChoiceUpdated"
\* `env.node_clients[0]` on an empty list panics; the panic unwinds through
\* every caller, which the model records as the result of the action.
PanicIndex == "panic: index out of bounds"
IsErr(r) == r \notin {"none", "Ok"}

(***************************************************************************)
(* The Environment before any action has run, and the locals of a leaf     *)
(* action before it has set any.                                           *)
(***************************************************************************)
EnvDefault ==
    [ latest_block_info |-> None,
      latest_header_time |-> 0,
      block_timestamp_increment |-> 1,
      payload_attributes |-> EmptyMap,
      last_producer_idx |-> None,
      next_payload_id |-> None,
      payload_id_history |-> EmptyMap,
      latest_payload_built |-> None,
      latest_payload_executed |-> None,
      latest_fork_choice_state |->
          [head_block_hash |-> 0, safe_block_hash |-> 0, finalized_block_hash |-> 0] ]

NoNet == [block_by_number |-> <<>>, header_by_number |-> <<>>,
          get_payload_v3 |-> <<>>, new_payload_v3 |-> <<>>,
          fork_choice_updated |-> <<>>, get_payload_v2 |-> <<>>]

LocInit == [i |-> 0, start_idx |-> 0, payload_id |-> None,
            accepted_check |-> FALSE, successful_broadcast |-> FALSE,
            verdicts |-> <<>>, self |-> [kind |-> "none"]]

\* A peer call: issued (logged and outstanding), then returned.
Call(peer, api, arg) == [peer |-> peer, api |-> api, arg |-> arg]
Issue(c) == /\ inflight' = inflight \cup {c}
            /\ calls' = Append(calls, c)
ReturnedStaysOutstanding(c) == /\ c \in inflight
                               /\ UNCHANGED <<inflight, calls>>
Returned(c) == /\ c \in inflight
               /\ inflight' = inflight \ {c}
               /\ UNCHANGED calls

\* The leaf action returns r to its caller.
Finish(r) == /\ cur' = "none"
             /\ pc' = "done"
             /\ ret' = r
             /\ history' = Append(history, [kind |-> cur, result |-> r])

Running(kind, at) == cur = kind /\ pc = at

(***************************************************************************)
(* Sequence::execute:                                                      *)
(*     for action in &mut self.actions { action.execute(env).await?; }     *)
(*     Ok(())                                                              *)
(***************************************************************************)
LeafKinds == {"PickNextBlockProducer", "GeneratePayloadAttributes",
              "CheckPayloadAccepted", "BroadcastNextNewPayload",
              "BroadcastLatestForkchoice", "AssertMineBlock",
              "GenerateNextPayload"}

SequenceFrame(actions) == [kind |-> "Sequence", actions |-> actions, pos |-> 1]
\* ProduceBlocks::execute in progress: the iterations of `for _ in 0..num_blocks`
\* completed so far.
ProduceBlocksFrame(num_blocks) ==
    [kind |-> "ProduceBlocks", num_blocks |-> num_blocks, iter |-> 0]
Top == stack[Len(stack)]
Pop == SubSeq(stack, 1, Len(stack) - 1)
SetTop(f) == [stack EXCEPT ![Len(stack)] = f]
InSequence == stack # <<>> /\ Top.kind = "Sequence" /\ cur = "none"

\* action.execute(env) on the member at hand: a leaf action starts, a
\* composite one gets its own frame.
Execute(a) ==
    IF a.kind \in LeafKinds
    THEN /\ cur' = a.kind
         /\ pc' = "start"
         /\ loc' = [LocInit EXCEPT !.self = a]
         /\ env0' = env
         /\ calls' = <<>>
         /\ net' = NoNet
         /\ UNCHANGED <<stack, inflight>>
    ELSE IF a.kind = "ProduceBlocks"
    THEN /\ stack' = Append(stack, ProduceBlocksFrame(a.num_blocks))
         /\ UNCHANGED <<cur, pc, loc, env0, calls, net, inflight>>
    ELSE /\ stack' = Append(stack, SequenceFrame(a.actions))
         /\ UNCHANGED <<cur, pc, loc, env0, calls, net, inflight>>

\* The loop head: the next member is executed, or the list is exhausted and
\* the Sequence returns Ok(()).
Sequence_Next ==
    /\ InSequence
    /\ ret = "none"
    /\ IF Top.pos > Len(Top.actions)
       THEN /\ stack' = Pop
            /\ ret' = "Ok"
            /\ UNCHANGED <<cur, pc, loc, env0, calls, net, inflight>>
       ELSE /\ Execute(Top.actions[Top.pos])
            /\ UNCHANGED ret
    /\ UNCHANGED <<env, num_clients, program, history>>

\* `.await?` on the member: Ok goes on to the next member, Err is returned.
Sequence_AwaitIgnoresErr ==
    /\ InSequence
    /\ ret # "none"
    /\ stack' = SetTop([Top EXCEPT !.pos = @ + 1])
    /\ ret' = "none"
    /\ UNCHANGED <<env, num_clients, net, program, cur, pc, loc, env0, calls,
                   inflight, history>>

\* As Sequence_Await, but a member that failed is executed again.
Sequence_AwaitRetries ==
    /\ InSequence
    /\ ret # "none"
    /\ IF ret = "Ok"
       THEN stack' = SetTop([Top EXCEPT !.pos = @ + 1]) /\ ret' = "none"
       ELSE ret' = "none" /\ UNCHANGED stack
    /\ UNCHANGED <<env, num_clients, net, program, cur, pc, loc, env0, calls,
                   inflight, history>>

Sequence_Await ==
    /\ InSequence
    /\ ret # "none"
    /\ IF ret = "Ok"
       THEN stack' = SetTop([Top EXCEPT !.pos = @ + 1]) /\ ret' = "none"
       ELSE stack' = Pop /\ UNCHANGED ret
    /\ UNCHANGED <<env, num_clients, net, program, cur, pc, loc, env0, calls,
                   inflight, history>>

Sequence == Sequence_Next \/ Sequence_Await

(***************************************************************************)
(* ProduceBlocks::execute:                                                 *)
(*     let mut sequence = Sequence::new(vec![Pick.., Generate..]);         *)
(*     for _ in 0..self.num_blocks { sequence.execute(env).await?; }       *)
(*     Ok(())                                                              *)
(***************************************************************************)
InProduceBlocks == stack # <<>> /\ Top.kind = "ProduceBlocks" /\ cur = "none"

\* The Sequence built at lines 516-519.
ProduceBlocks_sequence ==
    <<[kind |-> "PickNextBlockProducer"], [kind |-> "GeneratePayloadAttributes"]>>

\* `0..self.num_blocks` is exhausted.
RangeDoneInclusive(iter, num_blocks) == iter > num_blocks
RangeDone(iter, num_blocks) == iter >= num_blocks

\* The loop head: the inner Sequence is executed once more, or Ok(()).
ProduceBlocks_Next ==
    /\ InProduceBlocks
    /\ ret = "none"
    /\ IF RangeDone(Top.iter, Top.num_blocks)
       THEN stack' = Pop /\ ret' = "Ok"
       ELSE stack' = Append(stack, SequenceFrame(ProduceBlocks_sequence))
            /\ UNCHANGED ret
    /\ UNCHANGED <<env, num_clients, net, program, cur, pc, loc, env0, calls,
                   inflight, history>>

\* `.await?` on the inner Sequence.
ProduceBlocks_Await ==
    /\ InProduceBlocks
    /\ ret # "none"
    /\ IF ret = "Ok"
       THEN stack' = SetTop([Top EXCEPT !.iter = @ + 1]) /\ ret' = "none"
       ELSE stack' = Pop /\ UNCHANGED ret
    /\ UNCHANGED <<env, num_clients, net, program, cur, pc, loc, env0, calls,
                   inflight, history>>

ProduceBlocks == ProduceBlocks_Next \/ ProduceBlocks_Await

(***************************************************************************)
(* PickNextBlockProducer::execute                                          *)
(***************************************************************************)
StartIdxNoIncrement(number, n) == number % n
StartIdx(number, n) == (number + 1) % n

ScanIdx(start_idx, i, n) == (start_idx + i) % n

BlockMatchesHashOnly(block, info) == block.hash = info.hash
BlockMatches(block, info) == block.hash = info.hash /\ block.number = info.number

\* The latest blocks the peers can report to this action.
PickBlocks == [hash : B256, number : BlockNumbers, parent_beacon_block_root : {Some(0)}]
PickReplies == {RpcErr, RpcOk(None)} \cup {RpcOk(Some(b)) : b \in PickBlocks}

PickNextBlockProducer_Begin ==
    /\ Running("PickNextBlockProducer", "start")
    /\ IF num_clients = 0
       THEN Finish(ErrNoClients) /\ UNCHANGED <<loc, net>>
       ELSE IF ~IsSome(env.latest_block_info)
       THEN Finish(ErrNoLatestBlockInfo) /\ UNCHANGED <<loc, net>>
       ELSE /\ loc' = [loc EXCEPT
                         !.start_idx = StartIdx(Unwrap(env.latest_block_info).number,
                                                num_clients),
                         !.i = 0]
            /\ \E answers \in [Peers -> PickReplies] :
                   net' = [NoNet EXCEPT !.block_by_number = answers]
            /\ pc' = "loop"
            /\ UNCHANGED <<cur, ret, history>>
    /\ UNCHANGED <<env, num_clients, program, stack, env0, calls, inflight>>

PickNextBlockProducer_Call ==
    /\ Running("PickNextBlockProducer", "loop")
    /\ IF loc.i >= num_clients
       THEN Finish(ErrNoProducer) /\ UNCHANGED <<calls, inflight>>
       ELSE /\ Issue(Call(ScanIdx(loc.start_idx, loc.i, num_clients),
                          "block_by_number", "latest"))
            /\ pc' = "await_block"
            /\ UNCHANGED <<cur, ret, history>>
    /\ UNCHANGED <<env, num_clients, net, program, stack, loc, env0>>

\* As PickNextBlockProducer_Return, but a failed call is passed over like a
\* peer without a latest block.
PickNextBlockProducer_ReturnSkipsErr ==
    /\ Running("PickNextBlockProducer", "await_block")
    /\ LET idx == ScanIdx(loc.start_idx, loc.i, num_clients)
           latest_block == net.block_by_number[idx]
           latest_info == Unwrap(env.latest_block_info)
       IN  /\ Returned(Call(idx, "block_by_number", "latest"))
           /\ IF /\ ~IsRpcErr(latest_block)
                 /\ IsSome(latest_block.val)
                 /\ BlockMatches(Unwrap(latest_block.val), latest_info)
              THEN /\ env' = [env EXCEPT !.last_producer_idx = Some(idx)]
                   /\ Finish("Ok")
                   /\ UNCHANGED loc
              ELSE /\ loc' = [loc EXCEPT !.i = @ + 1]
                   /\ pc' = "loop"
                   /\ UNCHANGED <<env, cur, ret, history>>
    /\ UNCHANGED <<num_clients, net, program, stack, env0>>

PickNextBlockProducer_Return ==
    /\ Running("PickNextBlockProducer", "await_block")
    /\ LET idx == ScanIdx(loc.start_idx, loc.i, num_clients)
           latest_block == net.block_by_number[idx]
           latest_info == Unwrap(env.latest_block_info)
       IN  /\ Returned(Call(idx, "block_by_number", "latest"))
           /\ IF IsRpcErr(latest_block)
              THEN Finish(ErrTransport) /\ UNCHANGED <<env, loc>>
              ELSE IF /\ IsSome(latest_block.val)
                      /\ BlockMatches(Unwrap(latest_block.val), latest_info)
              THEN /\ env' = [env EXCEPT !.last_producer_idx = Some(idx)]
                   /\ Finish("Ok")
                   /\ UNCHANGED loc
              ELSE /\ loc' = [loc EXCEPT !.i = @ + 1]
                   /\ pc' = "loop"
                   /\ UNCHANGED <<env, cur, ret, history>>
    /\ UNCHANGED <<num_clients, net, program, stack, env0>>

PickNextBlockProducer ==
    \/ PickNextBlockProducer_Begin
    \/ PickNextBlockProducer_Call
    \/ PickNextBlockProducer_Return

(***************************************************************************)
(* GeneratePayloadAttributes::execute                                      *)
(***************************************************************************)
TimestampFromStored(e, block_number) ==
    IF block_number + 1 \in DOMAIN e.payload_attributes
    THEN e.payload_attributes[block_number + 1].timestamp + e.block_timestamp_increment
    ELSE e.latest_header_time + e.block_timestamp_increment
Timestamp(e, block_number) == e.latest_header_time + e.block_timestamp_increment

AttributesKeySame(block_number) == block_number
AttributesKey(block_number) == block_number + 1

GeneratePayloadAttributes_Execute ==
    /\ Running("GeneratePayloadAttributes", "start")
    /\ IF ~IsSome(env.latest_block_info)
       THEN Finish(ErrNoLatestBlockInfo) /\ UNCHANGED env
       ELSE LET block_number == Unwrap(env.latest_block_info).number
            IN  \E prev_randao \in B256, suggested_fee_recipient \in Addresses :
                  LET payload_attributes ==
                        [ timestamp |-> Timestamp(env, block_number),
                          prev_randao |-> prev_randao,
                          suggested_fee_recipient |-> suggested_fee_recipient,
                          withdrawals |-> Some(<<>>),
                          parent_beacon_block_root |-> Some(0) ]
                  IN  /\ env' = [env EXCEPT !.payload_attributes =
                                   MapInsert(@, AttributesKey(block_number),
                                             payload_attributes)]
                      /\ Finish("Ok")
    /\ UNCHANGED <<num_clients, net, program, stack, loc, env0, calls, inflight>>

GeneratePayloadAttributes == GeneratePayloadAttributes_Execute

(***************************************************************************)
(* CheckPayloadAccepted::execute                                           *)
(***************************************************************************)
ExtraDataMin == 32

ExtraLenOkInclusive(extra_len) == ~(extra_len < ExtraDataMin)
ExtraLenOk(extra_len) == ~(extra_len <= ExtraDataMin)

\* The four checks on a peer's latest header, in the order of the code: the
\* reason the peer is skipped (its debug! line), or "passed".
Verdict(header, new_payload_block_hash, next_new_payload) ==
    IF header.hash # new_payload_block_hash THEN "hash"
    ELSE IF header.difficulty # 0 THEN "difficulty"
    ELSE IF header.mix_hash # next_new_payload.prev_randao THEN "mix_hash"
    ELSE IF ~ExtraLenOk(header.extra_data_len) THEN "extra_len"
    ELSE "passed"

\* `if !accepted_check { ... }`: the header of the accepted peer is saved.
SaveHeaderEveryTime(e, accepted_check, header, next_new_payload) ==
    [e EXCEPT !.latest_header_time = next_new_payload.timestamp,
              !.latest_fork_choice_state.head_block_hash = header.hash,
              !.latest_block_info =
                  Some([hash |-> header.hash, number |-> header.number])]
SaveHeaderKeepsTime(e, accepted_check, header, next_new_payload) ==
    IF ~accepted_check
    THEN [e EXCEPT !.latest_fork_choice_state.head_block_hash = header.hash,
                   !.latest_block_info =
                       Some([hash |-> header.hash, number |-> header.number])]
    ELSE e
SaveHeaderKeepsHead(e, accepted_check, header, next_new_payload) ==
    IF ~accepted_check
    THEN [e EXCEPT !.latest_header_time = next_new_payload.timestamp,
                   !.latest_block_info =
                       Some([hash |-> header.hash, number |-> header.number])]
    ELSE e
SaveHeader(e, accepted_check, header, next_new_payload) ==
    IF ~accepted_check
    THEN [e EXCEPT !.latest_header_time = next_new_payload.timestamp,
                   !.latest_fork_choice_state.head_block_hash = header.hash,
                   !.latest_block_info =
                       Some([hash |-> header.hash, number |-> header.number])]
    ELSE e

\* The final `if accepted_check { Ok(()) } else { Err(..) }`.
CheckResultAlwaysOk(accepted_check) == "Ok"
CheckResult(accepted_check) == IF accepted_check THEN "Ok" ELSE ErrNotAccepted

\* The latest headers and the built payloads the peers can report.
CheckHeaders == [hash : B256, number : {1}, difficulty : {0, 1},
                 mix_hash : B256, extra_data_len : {ExtraDataMin, ExtraDataMin + 1}]
HeaderReplies == {RpcErr, RpcOk(None)} \cup {RpcOk(Some(h)) : h \in CheckHeaders}
GetPayloadReplies == {RpcErr} \cup {RpcOk([block_hash |-> h]) : h \in B256}
\* get_payload_v3 is called on a peer only after it has returned a header and
\* latest_payload_built was found.
CheckAnswers(e) ==
    { [header |-> h, payload |-> NotCalled] :
        h \in { r \in HeaderReplies : IsRpcErr(r) \/ ~IsSome(r.val)
                                       \/ ~IsSome(e.latest_payload_built) } }
    \cup
    { [header |-> h, payload |-> p] :
        h \in { r \in HeaderReplies : ~IsRpcErr(r) /\ IsSome(r.val)
                                       /\ IsSome(e.latest_payload_built) },
        p \in GetPayloadReplies }

\* `payload_id` is looked up once, before the loop, and passed to every
\* get_payload_v3 of the scan.
PayloadIdLookedUpAgain(e, l) ==
    LET again == MapGet(e.payload_id_history, Unwrap(e.latest_block_info).number + 1)
    IN  IF IsSome(again) THEN Unwrap(again) ELSE Unwrap(l.payload_id)
PayloadIdAsked(e, l) == Unwrap(l.payload_id)

CheckPayloadAccepted_Begin ==
    /\ Running("CheckPayloadAccepted", "start")
    /\ IF ~IsSome(env.latest_block_info)
       THEN Finish(ErrNoLatestBlockInfo) /\ UNCHANGED <<loc, net>>
       ELSE LET payload_id == MapGet(env.payload_id_history,
                                     Unwrap(env.latest_block_info).number + 1)
            IN  IF ~IsSome(payload_id)
                THEN Finish(ErrNoPayloadId) /\ UNCHANGED <<loc, net>>
                ELSE /\ loc' = [loc EXCEPT !.accepted_check = FALSE,
                                           !.payload_id = payload_id,
                                           !.i = 0]
                     /\ \E answers \in [Peers -> CheckAnswers(env)] :
                            net' = [NoNet EXCEPT
                                !.header_by_number = [p \in Peers |-> answers[p].header],
                                !.get_payload_v3 = [p \in Peers |-> answers[p].payload]]
                     /\ pc' = "loop"
                     /\ UNCHANGED <<cur, ret, history>>
    /\ UNCHANGED <<env, num_clients, program, stack, env0, calls, inflight>>

CheckPayloadAccepted_CallHeader ==
    /\ Running("CheckPayloadAccepted", "loop")
    /\ IF loc.i >= num_clients
       THEN Finish(CheckResult(loc.accepted_check)) /\ UNCHANGED <<calls, inflight>>
       ELSE /\ Issue(Call(loc.i, "header_by_number", "latest"))
            /\ pc' = "await_header"
            /\ UNCHANGED <<cur, ret, history>>
    /\ UNCHANGED <<env, num_clients, net, program, stack, loc, env0>>

CheckPayloadAccepted_HeaderReturned ==
    /\ Running("CheckPayloadAccepted", "await_header")
    /\ LET rpc_latest_header == net.header_by_number[loc.i]
       IN  /\ inflight = {Call(loc.i, "header_by_number", "latest")}
           /\ IF IsRpcErr(rpc_latest_header)
              THEN Finish(ErrTransport) /\ inflight' = {} /\ UNCHANGED calls
              ELSE IF ~IsSome(rpc_latest_header.val)
              THEN Finish(ErrNoHeader) /\ inflight' = {} /\ UNCHANGED calls
              ELSE IF ~IsSome(env.latest_payload_built)
              THEN Finish(ErrNoBuiltPayload) /\ inflight' = {} /\ UNCHANGED calls
              ELSE LET c == Call(loc.i, "get_payload_v3", PayloadIdAsked(env, loc))
                   IN  /\ inflight' = {c}
                       /\ calls' = Append(calls, c)
                       /\ pc' = "await_payload"
                       /\ UNCHANGED <<cur, ret, history>>
    /\ UNCHANGED <<env, num_clients, net, program, stack, loc, env0>>

CheckPayloadAccepted_PayloadReturned ==
    /\ Running("CheckPayloadAccepted", "await_payload")
    /\ LET rpc_latest_header == Unwrap(net.header_by_number[loc.i].val)
           next_new_payload == Unwrap(env.latest_payload_built)
           built_payload == net.get_payload_v3[loc.i]
       IN  /\ Returned(Call(loc.i, "get_payload_v3", PayloadIdAsked(env, loc)))
           /\ IF IsRpcErr(built_payload)
              THEN Finish(ErrTransport) /\ UNCHANGED <<env, loc>>
              ELSE LET verdict == Verdict(rpc_latest_header,
                                          built_payload.val.block_hash,
                                          next_new_payload)
                   IN  /\ env' = IF verdict = "passed"
                                 THEN SaveHeader(env, loc.accepted_check,
                                                 rpc_latest_header, next_new_payload)
                                 ELSE env
                       /\ loc' = [loc EXCEPT
                              !.accepted_check = @ \/ verdict = "passed",
                              !.verdicts = Append(@, [peer |-> loc.i,
                                                     verdict |-> verdict]),
                              !.i = @ + 1]
                       /\ pc' = "loop"
                       /\ UNCHANGED <<cur, ret, history>>
    /\ UNCHANGED <<num_clients, net, program, stack, env0>>

CheckPayloadAccepted ==
    \/ CheckPayloadAccepted_Begin
    \/ CheckPayloadAccepted_CallHeader
    \/ CheckPayloadAccepted_HeaderReturned
    \/ CheckPayloadAccepted_PayloadReturned

(***************************************************************************)
(* BroadcastNextNewPayload::execute                                        *)
(***************************************************************************)
PayloadStatusEnum == {"Valid", "Invalid", "Syncing", "Accepted"}

\* The two validations of a peer's latest block before it is submitted: the
\* error returned, or "Ok".
ValidateBlock(latest_block, latest_block_info, parent_beacon_block_root) ==
    IF latest_block.number # latest_block_info.number THEN ErrBlockNumber
    ELSE IF ~IsSome(latest_block.parent_beacon_block_root) THEN ErrNoBlockRoot
    ELSE IF parent_beacon_block_root # Unwrap(latest_block.parent_beacon_block_root)
    THEN ErrRootMismatch
    ELSE "Ok"

\* `result.status == PayloadStatusEnum::Valid`: record the payload and break.
StopsBroadcastNever(status) == FALSE
StopsBroadcast(status) == status = "Valid"

\* The latest blocks and the new-payload statuses the peers can report.
BroadcastBlocks == [hash : {0}, number : BlockNumbers,
                    parent_beacon_block_root : {None, Some(0), Some(1)}]
BroadcastBlockReplies ==
    {RpcErr, RpcOk(None)} \cup {RpcOk(Some(b)) : b \in BroadcastBlocks}
NewPayloadReplies == {RpcErr} \cup {RpcOk(s) : s \in PayloadStatusEnum}
\* new_payload_v3 is called on a peer only with a latest block that passed the
\* validations.
Submittable(e, r) ==
    /\ ~IsRpcErr(r)
    /\ IsSome(r.val)
    /\ IsSome(e.latest_block_info)
    /\ ~IsErr(ValidateBlock(Unwrap(r.val), Unwrap(e.latest_block_info),
           Unwrap(Unwrap(e.latest_payload_built).parent_beacon_block_root)))
BroadcastAnswers(e) ==
    { [block |-> b, status |-> NotCalled] :
        b \in { r \in BroadcastBlockReplies : ~Submittable(e, r) } }
    \cup
    { [block |-> b, status |-> s] :
        b \in { r \in BroadcastBlockReplies : Submittable(e, r) },
        s \in NewPayloadReplies }

BroadcastNextNewPayload_Begin ==
    /\ Running("BroadcastNextNewPayload", "start")
    /\ IF ~IsSome(env.latest_payload_built)
       THEN Finish(ErrNoBuiltPayload) /\ UNCHANGED <<loc, net>>
       ELSE IF ~IsSome(Unwrap(env.latest_payload_built).parent_beacon_block_root)
       THEN Finish(ErrNoPayloadRoot) /\ UNCHANGED <<loc, net>>
       ELSE /\ loc' = [loc EXCEPT !.successful_broadcast = FALSE, !.i = 0]
            /\ \E answers \in [Peers -> BroadcastAnswers(env)] :
                   net' = [NoNet EXCEPT
                       !.block_by_number = [p \in Peers |-> answers[p].block],
                       !.new_payload_v3 = [p \in Peers |-> answers[p].status]]
            /\ pc' = "loop"
            /\ UNCHANGED <<cur, ret, history>>
    /\ UNCHANGED <<env, num_clients, program, stack, env0, calls, inflight>>

BroadcastNextNewPayload_CallBlock ==
    /\ Running("BroadcastNextNewPayload", "loop")
    /\ IF loc.i >= num_clients
       THEN /\ Finish(IF loc.successful_broadcast THEN "Ok" ELSE ErrNotBroadcast)
            /\ UNCHANGED <<calls, inflight>>
       ELSE /\ Issue(Call(loc.i, "block_by_number", "latest"))
            /\ pc' = "await_block"
            /\ UNCHANGED <<cur, ret, history>>
    /\ UNCHANGED <<env, num_clients, net, program, stack, loc, env0>>

\* The reply to block_by_number, with the validations of the block.  With
\* on_mismatch = "return" a block that fails one is returned as the error of
\* the action, as the code does; "continue" would go on to the next peer.
BlockReturned(on_mismatch) ==
    /\ Running("BroadcastNextNewPayload", "await_block")
    /\ LET rpc_latest_block == net.block_by_number[loc.i]
           parent_beacon_block_root ==
               Unwrap(Unwrap(env.latest_payload_built).parent_beacon_block_root)
           return(r) == Finish(r) /\ inflight' = {} /\ UNCHANGED <<calls, loc>>
       IN  /\ inflight = {Call(loc.i, "block_by_number", "latest")}
           /\ IF IsRpcErr(rpc_latest_block) THEN return(ErrTransport)
              ELSE IF ~IsSome(rpc_latest_block.val) THEN return(ErrNoBlock)
              ELSE IF ~IsSome(env.latest_block_info) THEN return(ErrNoBlockInfo)
              ELSE LET checked == ValidateBlock(Unwrap(rpc_latest_block.val),
                                                Unwrap(env.latest_block_info),
                                                parent_beacon_block_root)
                   IN  IF IsErr(checked) /\ on_mismatch = "return"
                       THEN return(checked)
                       ELSE IF IsErr(checked)
                       THEN /\ loc' = [loc EXCEPT !.i = @ + 1]
                            /\ inflight' = {}
                            /\ pc' = "loop"
                            /\ UNCHANGED <<calls, cur, ret, history>>
                       ELSE LET c == Call(loc.i, "new_payload_v3",
                                          parent_beacon_block_root)
                            IN  /\ inflight' = {c}
                                /\ calls' = Append(calls, c)
                                /\ pc' = "await_new_payload"
                                /\ UNCHANGED <<loc, cur, ret, history>>
    /\ UNCHANGED <<env, num_clients, net, program, stack, env0>>

BroadcastNextNewPayload_BlockReturnedSkips == BlockReturned("continue")
BroadcastNextNewPayload_BlockReturned == BlockReturned("return")

BroadcastNextNewPayload_NewPayloadReturned ==
    /\ Running("BroadcastNextNewPayload", "await_new_payload")
    /\ LET result == net.new_payload_v3[loc.i]
           next_new_payload == Unwrap(env.latest_payload_built)
       IN  /\ Returned(Call(loc.i, "new_payload_v3",
                            Unwrap(next_new_payload.parent_beacon_block_root)))
           /\ IF IsRpcErr(result)
              THEN Finish(ErrTransport) /\ UNCHANGED <<env, loc>>
              ELSE IF StopsBroadcast(result.val)
              THEN /\ env' = [env EXCEPT
                                !.latest_payload_executed = Some(next_new_payload)]
                   /\ loc' = [loc EXCEPT !.successful_broadcast = TRUE]
                   /\ Finish("Ok")
              ELSE /\ loc' = [loc EXCEPT !.i = @ + 1]
                   /\ pc' = "loop"
                   /\ UNCHANGED <<env, cur, ret, history>>
    /\ UNCHANGED <<num_clients, net, program, stack, env0>>

BroadcastNextNewPayload ==
    \/ BroadcastNextNewPayload_Begin
    \/ BroadcastNextNewPayload_CallBlock
    \/ BroadcastNextNewPayload_BlockReturned
    \/ BroadcastNextNewPayload_NewPayloadReturned

(***************************************************************************)
(* GenerateNextPayload::execute                                            *)
(***************************************************************************)
\* The key under which the staged payload attributes are looked up, and the
\* key under which the payload id is recorded.
LookupKeyNext(block_number) == block_number + 1
LookupKey(block_number) == block_number
HistoryKey(block_number) == block_number + 1

\* ForkchoiceState with head, safe and finalized all equal to parent_hash.
ForkchoiceState(parent_hash) ==
    [head_block_hash |-> parent_hash, safe_block_hash |-> parent_hash,
     finalized_block_hash |-> parent_hash]

\* ForkchoiceUpdated: the payload status and the optional payload id.
ForkchoiceUpdated(status, payload_id) ==
    [payload_status |-> status, payload_id |-> payload_id]
FcuReplies ==
    {RpcErr} \cup { RpcOk(ForkchoiceUpdated(st, id)) :
                      st \in PayloadStatusEnum,
                      id \in {None} \cup {Some(i) : i \in PayloadIds} }
\* `fcu_result.payload_id.ok_or_else(..)?`: the payload id, if there is one.
PayloadIdOrDefault(fcu_result) ==
    IF IsSome(fcu_result.payload_id) THEN fcu_result.payload_id ELSE Some(1)
PayloadIdOf(fcu_result) == fcu_result.payload_id

\* The built payloads node 0 can return, as PayloadAttributes.
BuiltPayloads ==
    { [ timestamp |-> MaxTime, prev_randao |-> r, suggested_fee_recipient |-> 0,
        withdrawals |-> Some(<<>>), parent_beacon_block_root |-> Some(0) ] :
        r \in B256 }
\* get_payload_v3 is called only with a payload id.
NextPayloadAnswers ==
    { [fcu |-> f, payload |-> NotCalled] :
        f \in { r \in FcuReplies : IsRpcErr(r) \/ ~IsSome(PayloadIdOf(r.val)) } }
    \cup
    { [fcu |-> f, payload |-> g] :
        f \in { r \in FcuReplies : ~IsRpcErr(r) /\ IsSome(PayloadIdOf(r.val)) },
        g \in {RpcErr} \cup {RpcOk(b) : b \in BuiltPayloads} }

NextPayloadFcuCallToProducer(parent_hash, payload_attributes) ==
    Call(IF IsSome(env.last_producer_idx) THEN Unwrap(env.last_producer_idx) ELSE 0,
         "fork_choice_updated_v3",
         [fork_choice_state |-> ForkchoiceState(parent_hash),
          payload |-> Some(payload_attributes)])
NextPayloadFcuCall(parent_hash, payload_attributes) ==
    Call(0, "fork_choice_updated_v3",
         [fork_choice_state |-> ForkchoiceState(parent_hash),
          payload |-> Some(payload_attributes)])

GenerateNextPayload_Begin ==
    /\ Running("GenerateNextPayload", "start")
    /\ IF ~IsSome(env.latest_block_info)
       THEN Finish(ErrNoLatestBlockInfo) /\ UNCHANGED <<net, calls, inflight>>
       ELSE LET latest_block == Unwrap(env.latest_block_info)
                payload_attributes ==
                    MapGet(env.payload_attributes, LookupKey(latest_block.number))
            IN  IF ~IsSome(payload_attributes)
                THEN Finish(ErrNoAttributes) /\ UNCHANGED <<net, calls, inflight>>
                ELSE IF num_clients = 0
                THEN Finish(PanicIndex) /\ UNCHANGED <<net, calls, inflight>>
                ELSE /\ \E a \in NextPayloadAnswers :
                            net' = [NoNet EXCEPT
                                !.fork_choice_updated =
                                    [p \in Peers |-> IF p = 0 THEN a.fcu ELSE NotCalled],
                                !.get_payload_v3 =
                                    [p \in Peers |-> IF p = 0 THEN a.payload
                                                     ELSE NotCalled]]
                     /\ Issue(NextPayloadFcuCall(latest_block.hash,
                                                 Unwrap(payload_attributes)))
                     /\ pc' = "await_fcu"
                     /\ UNCHANGED <<cur, ret, history>>
    /\ UNCHANGED <<env, num_clients, program, stack, loc, env0>>

GenerateNextPayload_FcuReturned ==
    /\ Running("GenerateNextPayload", "await_fcu")
    /\ LET fcu_result == net.fork_choice_updated[0]
       IN  /\ Cardinality(inflight) = 1
           /\ inflight' = {}
           /\ IF IsRpcErr(fcu_result)
              THEN Finish(ErrTransport) /\ UNCHANGED <<env, loc>>
              ELSE IF ~IsSome(PayloadIdOf(fcu_result.val))
              THEN Finish(ErrNoPayloadIdForkChoice) /\ UNCHANGED <<env, loc>>
              ELSE /\ env' = [env EXCEPT !.next_payload_id = PayloadIdOf(fcu_result.val)]
                   /\ loc' = [loc EXCEPT !.payload_id = PayloadIdOf(fcu_result.val)]
                   /\ pc' = "sleep"
                   /\ UNCHANGED <<cur, ret, history>>
    /\ UNCHANGED <<num_clients, net, program, stack, env0, calls>>

\* sleep(Duration::from_secs(1)) is over: the built payload is asked for.
GenerateNextPayload_Slept ==
    /\ Running("GenerateNextPayload", "sleep")
    /\ Issue(Call(0, "get_payload_v3", Unwrap(loc.payload_id)))
    /\ pc' = "await_payload"
    /\ UNCHANGED <<env, num_clients, net, program, stack, cur, loc, env0, ret,
                   history>>

\* With record_first the payload id is entered in payload_id_history before
\* the reply is looked at; the code enters it after a successful reply.
PayloadReturned(record_first) ==
    /\ Running("GenerateNextPayload", "await_payload")
    /\ LET built_payload == net.get_payload_v3[0]
           payload_id == Unwrap(loc.payload_id)
           key == HistoryKey(Unwrap(env.latest_block_info).number)
       IN  /\ Returned(Call(0, "get_payload_v3", payload_id))
           /\ IF IsRpcErr(built_payload)
              THEN /\ Finish(ErrTransport)
                   /\ env' = IF record_first
                             THEN [env EXCEPT !.payload_id_history =
                                                  MapInsert(@, key, payload_id)]
                             ELSE env
              ELSE /\ env' = [env EXCEPT
                                !.payload_id_history = MapInsert(@, key, payload_id),
                                !.latest_payload_built = Some(built_payload.val)]
                   /\ Finish("Ok")
    /\ UNCHANGED <<num_clients, net, program, stack, loc, env0>>

GenerateNextPayload_PayloadReturnedRecorded == PayloadReturned(TRUE)
GenerateNextPayload_PayloadReturned == PayloadReturned(FALSE)

GenerateNextPayload ==
    \/ GenerateNextPayload_Begin
    \/ GenerateNextPayload_FcuReturned
    \/ GenerateNextPayload_Slept
    \/ GenerateNextPayload_PayloadReturned

(***************************************************************************)
(* BroadcastLatestForkchoice::execute                                      *)
(***************************************************************************)
\* The match on the awaited call: Ok(resp) logs the status and goes on to the
\* next client, Err(err) returns the error of the action.
ForkchoiceAbortsOnInvalid(resp) ==
    IsRpcErr(resp) \/ resp.val.payload_status = "Invalid"
ForkchoiceAborts(resp) == IsRpcErr(resp)

BroadcastLatestForkchoice_Begin ==
    /\ Running("BroadcastLatestForkchoice", "start")
    /\ IF num_clients = 0
       THEN Finish(ErrNoClients) /\ UNCHANGED <<loc, net>>
       ELSE IF ~IsSome(env.latest_block_info)
       THEN Finish(ErrNoLatestBlockInfo) /\ UNCHANGED <<loc, net>>
       ELSE /\ loc' = [loc EXCEPT !.i = 0]
            /\ \E answers \in [Peers -> FcuReplies] :
                   net' = [NoNet EXCEPT !.fork_choice_updated = answers]
            /\ pc' = "loop"
            /\ UNCHANGED <<cur, ret, history>>
    /\ UNCHANGED <<env, num_clients, program, stack, env0, calls, inflight>>

\* The call sent to client idx: the fork-choice state of the latest block and
\* the payload read from latest_payload_executed when the action began.
ForkchoiceCall(idx) ==
    Call(idx, "fork_choice_updated_v3",
         [fork_choice_state |-> ForkchoiceState(Unwrap(env0.latest_block_info).hash),
          payload |-> env0.latest_payload_executed])

BroadcastLatestForkchoice_Call ==
    /\ Running("BroadcastLatestForkchoice", "loop")
    /\ IF loc.i >= num_clients
       THEN Finish("Ok") /\ UNCHANGED <<calls, inflight>>
       ELSE /\ Issue(ForkchoiceCall(loc.i))
            /\ pc' = "await_fcu"
            /\ UNCHANGED <<cur, ret, history>>
    /\ UNCHANGED <<env, num_clients, net, program, stack, loc, env0>>

BroadcastLatestForkchoice_Return ==
    /\ Running("BroadcastLatestForkchoice", "await_fcu")
    /\ Returned(ForkchoiceCall(loc.i))
    /\ IF ForkchoiceAborts(net.fork_choice_updated[loc.i])
       THEN Finish(ErrForkchoice) /\ UNCHANGED loc
       ELSE /\ loc' = [loc EXCEPT !.i = @ + 1]
            /\ pc' = "loop"
            /\ UNCHANGED <<cur, ret, history>>
    /\ UNCHANGED <<env, num_clients, net, program, stack, env0>>

BroadcastLatestForkchoice ==
    \/ BroadcastLatestForkchoice_Begin
    \/ BroadcastLatestForkchoice_Call
    \/ BroadcastLatestForkchoice_Return

(***************************************************************************)
(* AssertMineBlock::execute                                                *)
(***************************************************************************)
AssertMineBlock(node_idx, payload_attributes) ==
    [kind |-> "AssertMineBlock", node_idx |-> node_idx,
     payload_attributes |-> payload_attributes]

\* The match on fcu_result: the payload is fetched, or the error returned.
MineOutcomeAnyStatus(fcu_result) ==
    IF IsSome(fcu_result.payload_id) THEN "get_payload" ELSE ErrNoPayloadIdReturned
MineOutcome(fcu_result) ==
    IF fcu_result.payload_status = "Valid"
    THEN IF IsSome(fcu_result.payload_id) THEN "get_payload"
         ELSE ErrNoPayloadIdReturned
    ELSE ErrStatusNotValid

\* What the one peer can answer: get_payload_v2 is called only after a
\* fork-choice update that leads to it, and that only after a latest block.
MineGetPayloadReplies == {RpcErr, RpcOk("payload")}
MineAnswers ==
    { [block |-> b, fcu |-> NotCalled, payload |-> NotCalled] :
        b \in {RpcErr, RpcOk(None)} }
    \cup
    { [block |-> RpcOk(Some(b)), fcu |-> f, payload |-> NotCalled] :
        b \in PickBlocks,
        f \in { r \in FcuReplies : IsRpcErr(r) \/ MineOutcome(r.val) # "get_payload" } }
    \cup
    { [block |-> RpcOk(Some(b)), fcu |-> f, payload |-> g] :
        b \in PickBlocks,
        f \in { r \in FcuReplies : ~IsRpcErr(r) /\ MineOutcome(r.val) = "get_payload" },
        g \in MineGetPayloadReplies }

MineBlockCall == Call(loc.self.node_idx, "block_by_number", "latest")
MineFcuCall(parent_hash) ==
    Call(loc.self.node_idx, "fork_choice_updated_v2",
         [fork_choice_state |-> ForkchoiceState(parent_hash),
          payload |-> Some(loc.self.payload_attributes)])
MineGetPayloadCall(payload_id) == Call(loc.self.node_idx, "get_payload_v2", payload_id)

AssertMineBlock_Begin ==
    /\ Running("AssertMineBlock", "start")
    /\ IF loc.self.node_idx >= num_clients
       THEN Finish(ErrNodeIndex) /\ UNCHANGED <<net, calls, inflight>>
       ELSE /\ \E a \in MineAnswers :
                   net' = [NoNet EXCEPT
                       !.block_by_number =
                           [p \in Peers |-> IF p = loc.self.node_idx
                                            THEN a.block ELSE NotCalled],
                       !.fork_choice_updated =
                           [p \in Peers |-> IF p = loc.self.node_idx
                                            THEN a.fcu ELSE NotCalled],
                       !.get_payload_v2 =
                           [p \in Peers |-> IF p = loc.self.node_idx
                                            THEN a.payload ELSE NotCalled]]
            /\ Issue(MineBlockCall)
            /\ pc' = "await_block"
            /\ UNCHANGED <<cur, ret, history>>
    /\ UNCHANGED <<env, num_clients, program, stack, loc, env0>>

AssertMineBlock_BlockReturned ==
    /\ Running("AssertMineBlock", "await_block")
    /\ LET latest_block == net.block_by_number[loc.self.node_idx]
       IN  /\ inflight = {MineBlockCall}
           /\ IF IsRpcErr(latest_block)
              THEN Finish(ErrTransport) /\ inflight' = {} /\ UNCHANGED calls
              ELSE IF ~IsSome(latest_block.val)
              THEN Finish(ErrLatestBlockNotFound) /\ inflight' = {} /\ UNCHANGED calls
              ELSE LET c == MineFcuCall(Unwrap(latest_block.val).hash)
                   IN  /\ inflight' = {c}
                       /\ calls' = Append(calls, c)
                       /\ pc' = "await_fcu"
                       /\ UNCHANGED <<cur, ret, history>>
    /\ UNCHANGED <<env, num_clients, net, program, stack, loc, env0>>

AssertMineBlock_FcuReturned ==
    /\ Running("AssertMineBlock", "await_fcu")
    /\ LET fcu_result == net.fork_choice_updated[loc.self.node_idx]
       IN  /\ Cardinality(inflight) = 1
           /\ \A c \in inflight : c.api = "fork_choice_updated_v2"
           /\ IF IsRpcErr(fcu_result)
              THEN Finish(ErrTransport) /\ inflight' = {} /\ UNCHANGED calls
              ELSE IF MineOutcome(fcu_result.val) = "get_payload"
              THEN LET c == MineGetPayloadCall(Unwrap(fcu_result.val.payload_id))
                   IN  /\ inflight' = {c}
                       /\ calls' = Append(calls, c)
                       /\ pc' = "await_payload"
                       /\ UNCHANGED <<cur, ret, history>>
              ELSE /\ Finish(MineOutcome(fcu_result.val))
                   /\ inflight' = {}
                   /\ UNCHANGED calls
    /\ UNCHANGED <<env, num_clients, net, program, stack, loc, env0>>

AssertMineBlock_PayloadReturned ==
    /\ Running("AssertMineBlock", "await_payload")
    /\ Cardinality(inflight) = 1
    /\ \A c \in inflight : c.api = "get_payload_v2"
    /\ inflight' = {}
    /\ Finish(IF IsRpcErr(net.get_payload_v2[loc.self.node_idx])
              THEN ErrTransport ELSE "Ok")
    /\ UNCHANGED <<env, num_clients, net, program, stack, loc, env0, calls>>

AssertMineBlock_Execute ==
    \/ AssertMineBlock_Begin
    \/ AssertMineBlock_BlockReturned
    \/ AssertMineBlock_FcuReturned
    \/ AssertMineBlock_PayloadReturned

(***************************************************************************)
(* The runs checked.  The driver hands a list of actions to a Sequence and *)
(* executes it against an Environment; each specification below fixes the  *)
(* lists and the Environments it starts from.                              *)
(***************************************************************************)
Act(kind) == [kind |-> kind]
Nested(actions) == [kind |-> "Sequence", actions |-> actions]

InitWith(envs, programs, counts) ==
    /\ env \in envs
    /\ num_clients \in counts
    /\ program \in programs
    /\ stack = <<SequenceFrame(program)>>
    /\ net = NoNet
    /\ cur = "none"
    /\ pc = "idle"
    /\ loc = LocInit
    /\ env0 = env
    /\ calls = <<>>
    /\ inflight = {}
    /\ ret = "none"
    /\ history = <<>>

BlockInfos == [hash : B256, number : BlockNumbers]

\* Payload attributes as an earlier step may have left them.
Attributes(timestamp, prev_randao, root) ==
    [ timestamp |-> timestamp,
      prev_randao |-> prev_randao,
      suggested_fee_recipient |-> 0,
      withdrawals |-> Some(<<>>),
      parent_beacon_block_root |-> root ]

\* PickNextBlockProducer alone.
PickEnvs ==
    { [EnvDefault EXCEPT !.latest_block_info = info, !.last_producer_idx = last] :
        info \in {None} \cup {Some(b) : b \in BlockInfos},
        last \in {None, Some(0)} }
InitPick == InitWith(PickEnvs, {<<Act("PickNextBlockProducer")>>}, 0..MaxPeers)
NextPick == Sequence \/ PickNextBlockProducer
SpecPick == InitPick /\ [][NextPick]_vars

\* GeneratePayloadAttributes, once or twice in a row.
StoredAttributes ==
    {EmptyMap} \cup
    { MapInsert(EmptyMap, k, Attributes(0, 0, Some(0))) : k \in 0..(MaxNumber + 1) }
GenerateEnvs ==
    { [EnvDefault EXCEPT !.latest_block_info = info,
                         !.latest_header_time = t0,
                         !.block_timestamp_increment = T,
                         !.payload_attributes = stored] :
        info \in {None} \cup {Some([hash |-> 0, number |-> n]) : n \in BlockNumbers},
        t0 \in 0..MaxTime,
        T \in 1..MaxIncrement,
        stored \in StoredAttributes }
GeneratePrograms ==
    { <<Act("GeneratePayloadAttributes")>>,
      <<Act("GeneratePayloadAttributes"), Act("GeneratePayloadAttributes")>> }
InitGenerate == InitWith(GenerateEnvs, GeneratePrograms, {1})
NextGenerate == Sequence \/ GeneratePayloadAttributes
SpecGenerate == InitGenerate /\ [][NextGenerate]_vars

\* CheckPayloadAccepted alone.
CheckEnvs ==
    { [EnvDefault EXCEPT !.latest_block_info = info,
                         !.payload_id_history = ids,
                         !.latest_payload_built = built] :
        info \in {None, Some([hash |-> 0, number |-> 0])},
        ids \in {EmptyMap, MapInsert(EmptyMap, 1, 1), MapInsert(EmptyMap, 2, 1),
                 MapInsert(MapInsert(EmptyMap, 1, 1), 2, 2)},
        built \in {None, Some(Attributes(MaxTime, 1, Some(0)))} }
InitCheck == InitWith(CheckEnvs, {<<Act("CheckPayloadAccepted")>>}, 0..MaxCheckPeers)
NextCheck == Sequence \/ CheckPayloadAccepted
SpecCheck == InitCheck /\ [][NextCheck]_vars

\* BroadcastNextNewPayload alone.
BroadcastEnvs ==
    { [EnvDefault EXCEPT !.latest_block_info = info,
                         !.latest_payload_built = built,
                         !.latest_payload_executed = executed] :
        info \in {None, Some([hash |-> 0, number |-> 1])},
        built \in {None, Some(Attributes(MaxTime, 1, None)),
                   Some(Attributes(MaxTime, 1, Some(0)))},
        executed \in {None, Some(Attributes(0, 0, Some(0)))} }
InitBroadcast ==
    InitWith(BroadcastEnvs, {<<Act("BroadcastNextNewPayload")>>}, 0..MaxPeers)
NextBroadcast == Sequence \/ BroadcastNextNewPayload
SpecBroadcast == InitBroadcast /\ [][NextBroadcast]_vars

\* A Sequence of up to MaxActions actions, some of them grouped in a Sequence
\* of their own.
RECURSIVE Lists(_, _)
Lists(S, n) ==
    IF n = 0 THEN {<<>>}
    ELSE Lists(S, n - 1) \cup { Append(l, a) : l \in Lists(S, n - 1), a \in S }
FlatPrograms ==
    Lists({Act("PickNextBlockProducer"), Act("GeneratePayloadAttributes")}, MaxActions)
SequencePrograms ==
    FlatPrograms
    \cup UNION { { <<Nested(SubSeq(l, 1, k))>> \o SubSeq(l, k + 1, Len(l)) :
                     k \in 0..Len(l) } : l \in FlatPrograms }
    \cup UNION { { SubSeq(l, 1, k) \o <<Nested(SubSeq(l, k + 1, Len(l)))>> :
                     k \in 0..Len(l) } : l \in FlatPrograms }
SequenceEnvs ==
    { [EnvDefault EXCEPT !.latest_block_info = info] :
        info \in {None, Some([hash |-> 0, number |-> 0])} }
InitSequence == InitWith(SequenceEnvs, SequencePrograms, 0..1)
NextSequence == Sequence \/ PickNextBlockProducer \/ GeneratePayloadAttributes
SpecSequence == InitSequence /\ [][NextSequence]_vars

\* A Sequence consisting of ProduceBlocks(num_blocks), on one or two peers.
ProduceEnvs ==
    { [EnvDefault EXCEPT !.latest_block_info = info] :
        info \in {None} \cup {Some([hash |-> 0, number |-> n]) : n \in 0..1} }
ProducePrograms ==
    { <<[kind |-> "ProduceBlocks", num_blocks |-> n]>> : n \in 0..MaxBlocks }
InitProduce == InitWith(ProduceEnvs, ProducePrograms, 0..2)
NextProduce ==
    Sequence \/ ProduceBlocks \/ PickNextBlockProducer \/ GeneratePayloadAttributes
SpecProduce == InitProduce /\ [][NextProduce]_vars

\* BroadcastLatestForkchoice alone.
ForkchoiceEnvs ==
    { [EnvDefault EXCEPT !.latest_block_info = info,
                         !.latest_payload_executed = executed] :
        info \in {None} \cup {Some([hash |-> h, number |-> 1]) : h \in B256},
        executed \in {None, Some(Attributes(0, 0, Some(0)))} }
InitForkchoice ==
    InitWith(ForkchoiceEnvs, {<<Act("BroadcastLatestForkchoice")>>}, 0..MaxPeers)
NextForkchoice == Sequence \/ BroadcastLatestForkchoice
SpecForkchoice == InitForkchoice /\ [][NextForkchoice]_vars

\* Each of the four actions that reach several peers, alone.
ScanEnvs ==
    { [EnvDefault EXCEPT !.latest_block_info = Some([hash |-> 0, number |-> n]),
                         !.payload_id_history = MapInsert(EmptyMap, n + 1, 1),
                         !.latest_payload_built = Some(Attributes(MaxTime, 1, Some(0)))] :
        n \in 0..1 }
ScanPrograms ==
    { <<Act(k)>> : k \in {"PickNextBlockProducer", "BroadcastLatestForkchoice",
                          "CheckPayloadAccepted", "BroadcastNextNewPayload"} }
InitScan == InitWith(ScanEnvs, ScanPrograms, 0..MaxCheckPeers)
NextScan ==
    \/ Sequence
    \/ PickNextBlockProducer
    \/ BroadcastLatestForkchoice
    \/ CheckPayloadAccepted
    \/ BroadcastNextNewPayload
SpecScan == InitScan /\ [][NextScan]_vars

\* AssertMineBlock alone, with a node_idx inside or outside the peer list.
MineEnvs ==
    { [EnvDefault EXCEPT !.latest_block_info = info] :
        info \in {None, Some([hash |-> 0, number |-> 0])} }
MinePrograms ==
    { <<AssertMineBlock(node_idx, Attributes(1, 0, Some(0)))>> : node_idx \in 0..MaxPeers }
InitMine == InitWith(MineEnvs, MinePrograms, 0..MaxPeers)
NextMine == Sequence \/ AssertMineBlock_Execute
SpecMine == InitMine /\ [][NextMine]_vars

\* GenerateNextPayload: alone, right after GeneratePayloadAttributes, or twice.
NextPayloadEnvs ==
    { [EnvDefault EXCEPT !.latest_block_info = info,
                         !.payload_attributes = stored,
                         !.payload_id_history = ids] :
        info \in {None} \cup {Some([hash |-> 0, number |-> n]) : n \in 0..1},
        stored \in StoredAttributes,
        ids \in {EmptyMap, MapInsert(EmptyMap, 1, 2)} }
NextPayloadPrograms ==
    { <<Act("GenerateNextPayload")>>,
      <<Act("GeneratePayloadAttributes"), Act("GenerateNextPayload")>>,
      <<Act("GenerateNextPayload"), Act("GenerateNextPayload")>> }
InitNextPayload == InitWith(NextPayloadEnvs, NextPayloadPrograms, 0..1)
NextNextPayload == Sequence \/ GeneratePayloadAttributes \/ GenerateNextPayload
SpecNextPayload == InitNextPayload /\ [][NextNextPayload]_vars

\* GenerateNextPayload or CheckPayloadAccepted alone, with and without the
\* entry each looks up.
LookupEnvs ==
    { [EnvDefault EXCEPT !.latest_block_info = Some([hash |-> 0, number |-> n]),
                         !.payload_attributes = stored,
                         !.payload_id_history = ids,
                         !.latest_payload_built = Some(Attributes(MaxTime, 1, Some(0)))] :
        n \in 0..1,
        stored \in StoredAttributes,
        ids \in {EmptyMap} \cup {MapInsert(EmptyMap, k, 1) : k \in 0..2} }
LookupPrograms == {<<Act("GenerateNextPayload")>>, <<Act("CheckPayloadAccepted")>>}
InitLookup == InitWith(LookupEnvs, LookupPrograms, 0..1)
NextLookup == Sequence \/ GenerateNextPayload \/ CheckPayloadAccepted
SpecLookup == InitLookup /\ [][NextLookup]_vars

\* GenerateNextPayload alone or after PickNextBlockProducer, on up to two
\* peers, with the attributes it looks up in place.
PrimaryEnvs ==
    { [EnvDefault EXCEPT !.latest_block_info = Some([hash |-> h, number |-> n]),
                         !.payload_attributes =
                             MapInsert(EmptyMap, n, Attributes(1, 0, Some(0))),
                         !.last_producer_idx = last] :
        h \in B256, n \in 0..1, last \in {None, Some(0), Some(1)} }
PrimaryPrograms ==
    { <<Act("GenerateNextPayload")>>,
      <<Act("PickNextBlockProducer"), Act("GenerateNextPayload")>> }
InitPrimary == InitWith(PrimaryEnvs, PrimaryPrograms, 0..2)
NextPrimary == Sequence \/ PickNextBlockProducer \/ GenerateNextPayload
SpecPrimary == InitPrimary /\ [][NextPrimary]_vars

\* Every action of the module, alone or in a short Sequence, run to its end:
\* a peer call that was issued returns, and the driver polls the future until
\* it is ready, so a step that can be taken is taken.
LiveEnvs ==
    { EnvDefault,
      [EnvDefault EXCEPT
          !.latest_block_info = Some([hash |-> 0, number |-> 0]),
          !.payload_attributes = MapInsert(EmptyMap, 0, Attributes(1, 1, Some(0))),
          !.payload_id_history = MapInsert(EmptyMap, 1, 1),
          !.latest_payload_built = Some(Attributes(MaxTime, 1, Some(0)))] }
LivePrograms ==
    { <<Act(k)>> : k \in LeafKinds \ {"AssertMineBlock"} }
    \cup { <<AssertMineBlock(node_idx, Attributes(1, 0, Some(0)))>> : node_idx \in 0..2 }
    \cup { <<[kind |-> "ProduceBlocks", num_blocks |-> 2]>>,
           <<Act("PickNextBlockProducer"), Act("GeneratePayloadAttributes"),
             Act("GenerateNextPayload")>>,
           <<Nested(<<Act("GenerateNextPayload"), Act("BroadcastLatestForkchoice")>>),
             Act("GeneratePayloadAttributes")>> }
InitLive == InitWith(LiveEnvs, LivePrograms, 0..2)
NextLive ==
    \/ Sequence
    \/ ProduceBlocks
    \/ AssertMineBlock_Execute
    \/ PickNextBlockProducer
    \/ GeneratePayloadAttributes
    \/ GenerateNextPayload
    \/ BroadcastLatestForkchoice
    \/ CheckPayloadAccepted
    \/ BroadcastNextNewPayload
SpecLive == InitLive /\ [][NextLive]_vars /\ WF_vars(NextLive)

\* CheckPayloadAccepted followed by one more action of the module, from a
\* context whose head_block_hash may differ from latest_block_info.hash.
AfterCheckEnvs ==
    { [EnvDefault EXCEPT
          !.latest_block_info = Some([hash |-> 0, number |-> 0]),
          !.payload_attributes =
              MapInsert(MapInsert(EmptyMap, 0, Attributes(1, 1, Some(0))),
                        1, Attributes(1, 1, Some(0))),
          !.payload_id_history = MapInsert(MapInsert(EmptyMap, 1, 1), 2, 1),
          !.latest_payload_built = Some(Attributes(MaxTime, 1, Some(0))),
          !.latest_fork_choice_state =
              [head_block_hash |-> head, safe_block_hash |-> 1,
               finalized_block_hash |-> finalized]] :
        head \in B256, finalized \in B256 }
AfterCheckPrograms ==
    { <<Act("CheckPayloadAccepted"), Act(k)>> : k \in LeafKinds \ {"AssertMineBlock"} }
    \cup { <<Act("CheckPayloadAccepted"), AssertMineBlock(0, Attributes(1, 0, Some(0)))>>,
           <<Act("CheckPayloadAccepted"), [kind |-> "ProduceBlocks", num_blocks |-> 1]>> }
InitAfterCheck == InitWith(AfterCheckEnvs, AfterCheckPrograms, 1..2)
NextAfterCheck ==
    \/ Sequence
    \/ ProduceBlocks
    \/ AssertMineBlock_Execute
    \/ PickNextBlockProducer
    \/ GeneratePayloadAttributes
    \/ GenerateNextPayload
    \/ BroadcastLatestForkchoice
    \/ CheckPayloadAccepted
    \/ BroadcastNextNewPayload
SpecAfterCheck == InitAfterCheck /\ [][NextAfterCheck]_vars

(***************************************************************************)
(* Properties.                                                             *)
(***************************************************************************)
Last(s) == s[Len(s)]
\* The leaf action `kind` has returned and no other has started since: its
\* locals, its calls and the peers' answers are still those of its run.
Finished(kind) == cur = "none" /\ history # <<>> /\ Last(history).kind = kind
LastResult == Last(history).result
Active(kind) == (cur = kind /\ pc # "start") \/ Finished(kind)
AllOk(h) == \A k \in 1..Len(h) : h[k].result = "Ok"
PeersCalled == [k \in 1..Len(calls) |-> calls[k].peer]
HasReturned(c) == (\E k \in 1..Len(calls) : calls[k] = c) /\ c \notin inflight

\* The leaves of a list of actions, in execution order.
RECURSIVE Flatten(_)
Flatten(actions) ==
    IF actions = <<>> THEN <<>>
    ELSE LET a == Head(actions)
         IN  (IF a.kind \in LeafKinds THEN <<a.kind>> ELSE Flatten(a.actions))
             \o Flatten(Tail(actions))

(* C1: a Sequence runs its members in list order, one at a time, and stops *)
(* at the first member that fails, returning that failure: the completed   *)
(* actions are a prefix of the list, only the last of them can have        *)
(* failed, a member is running only if all before it returned Ok, and the  *)
(* Sequence returns Ok only after all members did, else the failure.       *)
C1_SequenceStopsAtFirstFailure ==
    LET flat == Flatten(program)
        n == Len(history)
    IN  /\ n <= Len(flat)
        /\ \A k \in 1..n : history[k].kind = flat[k]
        /\ \A k \in 1..(n - 1) : history[k].result = "Ok"
        /\ cur # "none" => /\ n < Len(flat)
                           /\ cur = flat[n + 1]
                           /\ AllOk(history)
        /\ stack = <<>> =>
              /\ ret # "none"
              /\ ret = "Ok" => n = Len(flat) /\ AllOk(history)
              /\ ret # "Ok" => n >= 1 /\ history[n].result = ret /\ IsErr(ret)

\* [A, B, C] where A succeeded and B failed: the Sequence has returned B's
\* failure and C was never executed.
C1_Witness ==
    /\ Len(program) = 3
    /\ Len(Flatten(program)) = 3
    /\ stack = <<>>
    /\ Len(history) = 2
    /\ history[1].result = "Ok"
    /\ IsErr(history[2].result)
    /\ ret = history[2].result

\* What peer p reports as its latest block equals info in hash and number.
ReportsLatest(p, info) ==
    LET r == net.block_by_number[p]
    IN  /\ r.tag = "Ok"
        /\ IsSome(r.val)
        /\ Unwrap(r.val).hash = info.hash
        /\ Unwrap(r.val).number = info.number
\* The scan order of the claim: (N+1) mod P, then onwards, wrapping.
ScanOrder(N, P) == [k \in 1..P |-> (((N + 1) % P) + (k - 1)) % P]
PickPre == num_clients >= 1 /\ IsSome(env.latest_block_info)

(* C2: PickNextBlockProducer calls the peers in the order (N+1) mod P,     *)
(* (N+1) mod P + 1, ... wrapping, each at most once; when it succeeds, the *)
(* last peer called is the first in that order that reports a block equal  *)
(* to latest_block_info in hash and number, last_producer_idx is that      *)
(* peer, and no peer after it was called.                                  *)
C2_PickScanOrder ==
    (Active("PickNextBlockProducer") /\ PickPre) =>
        LET info == Unwrap(env.latest_block_info)
            order == ScanOrder(info.number, num_clients)
            n == Len(calls)
        IN  /\ n <= num_clients
            /\ \A k \in 1..n : calls[k] = Call(order[k], "block_by_number", "latest")
            /\ \A k \in 1..(n - 1) : ~ReportsLatest(order[k], info)
            /\ (Finished("PickNextBlockProducer") /\ LastResult = "Ok") =>
                  /\ n >= 1
                  /\ ReportsLatest(order[n], info)
                  /\ env.last_producer_idx = Some(order[n])
            /\ (\E k \in 1..n : HasReturned(calls[k]) /\ ReportsLatest(order[k], info))
                  => Finished("PickNextBlockProducer") /\ LastResult = "Ok"

\* Three peers, N = 1: the scan went 2, 0 and stopped at peer 0, though peer
\* 1 reports the same block.
C2_Witness ==
    /\ Finished("PickNextBlockProducer")
    /\ num_clients = 3
    /\ IsSome(env.latest_block_info)
    /\ Unwrap(env.latest_block_info).number = 1
    /\ PeersCalled = <<2, 0>>
    /\ LastResult = "Ok"
    /\ env.last_producer_idx = Some(0)
    /\ env0.last_producer_idx = None
    /\ ReportsLatest(1, Unwrap(env.latest_block_info))

(* C3 as stated: with latest_block_info set and at least one peer,         *)
(* PickNextBlockProducer fails if and only if no peer reports a latest     *)
(* block equal to latest_block_info in hash and number.                    *)
C3_FailsIffNoPeerMatches ==
    (Finished("PickNextBlockProducer") /\ PickPre) =>
        (IsErr(LastResult) <=>
            ~\E p \in Peers : ReportsLatest(p, Unwrap(env.latest_block_info)))

(* C3 amended: with latest_block_info set and at least one peer,           *)
(* PickNextBlockProducer fails if and only if, in scan order, no peer      *)
(* reporting a block equal to latest_block_info comes before the first     *)
(* peer whose call fails.                                                  *)
C3_FailsIffNoMatchBeforeCallFailure ==
    (Finished("PickNextBlockProducer") /\ PickPre) =>
        LET info == Unwrap(env.latest_block_info)
            order == ScanOrder(info.number, num_clients)
        IN  IsErr(LastResult) <=>
              ~\E k \in 1..num_clients :
                  /\ ReportsLatest(order[k], info)
                  /\ \A j \in 1..(k - 1) : ~IsRpcErr(net.block_by_number[order[j]])

\* The action failed on a peer call although a peer further on in the scan
\* reports the block looked for.
C3_Witness ==
    /\ Finished("PickNextBlockProducer")
    /\ PickPre
    /\ LastResult = ErrTransport
    /\ \E p \in Peers : ReportsLatest(p, Unwrap(env.latest_block_info))

\* The run so far is k executions of GeneratePayloadAttributes, all Ok.
GeneratedTimes(k) ==
    /\ cur = "none"
    /\ Len(history) = k
    /\ AllOk(history)
    /\ \A j \in 1..k : history[j].kind = "GeneratePayloadAttributes"
StoredTimestamp ==
    env.payload_attributes[Unwrap(env.latest_block_info).number + 1].timestamp

(* C4 as stated: of two consecutive executions of GeneratePayloadAttributes *)
(* the first stores attributes with timestamp t0 + T and the second with    *)
(* timestamp t0 + 2T (t0 = latest_header_time, T = the increment).          *)
C4_SecondTimestampAdvances ==
    /\ GeneratedTimes(1) =>
          StoredTimestamp = env.latest_header_time + env.block_timestamp_increment
    /\ GeneratedTimes(2) =>
          StoredTimestamp = env.latest_header_time + 2 * env.block_timestamp_increment

(* C4 amended: both executions store attributes with timestamp t0 + T, and *)
(* neither changes latest_header_time.                                     *)
C4_BothTimestampsEqual ==
    \A k \in 1..2 : GeneratedTimes(k) =>
        /\ StoredTimestamp = env.latest_header_time + env.block_timestamp_increment
        /\ env.latest_header_time = env0.latest_header_time

\* GeneratePayloadAttributes has run twice.
C4_Witness ==
    /\ GeneratedTimes(2)
    /\ Len(program) = 2
    /\ StoredTimestamp = env.latest_header_time + env.block_timestamp_increment
    /\ env.latest_header_time > 0

(* C5: a GeneratePayloadAttributes that succeeds changes the Environment   *)
(* only at key latest_block_info.number + 1 of payload_attributes, where   *)
(* it stores the new attributes; it calls no peer; it fails exactly when   *)
(* latest_block_info is absent, and then changes nothing.                  *)
C5_GenerateFrame ==
    Finished("GeneratePayloadAttributes") =>
        /\ calls = <<>>
        /\ IsErr(LastResult) <=> ~IsSome(env0.latest_block_info)
        /\ IsErr(LastResult) => env = env0
        /\ LastResult = "Ok" =>
              LET key == Unwrap(env0.latest_block_info).number + 1
              IN  /\ DOMAIN env.payload_attributes =
                         (DOMAIN env0.payload_attributes) \cup {key}
                  /\ \A k \in DOMAIN env0.payload_attributes :
                         k # key => env.payload_attributes[k] = env0.payload_attributes[k]
                  /\ env.payload_attributes[key].timestamp =
                         env0.latest_header_time + env0.block_timestamp_increment
                  /\ env.payload_attributes[key].parent_beacon_block_root = Some(0)
                  /\ env.payload_attributes[key].withdrawals = Some(<<>>)
                  /\ [env EXCEPT !.payload_attributes = env0.payload_attributes] = env0

\* It succeeded with attributes already stored under another key.
C5_Witness ==
    /\ Finished("GeneratePayloadAttributes")
    /\ LastResult = "Ok"
    /\ \E k \in DOMAIN env0.payload_attributes :
           /\ k # Unwrap(env0.latest_block_info).number + 1
           /\ env.payload_attributes[k] = env0.payload_attributes[k]
    /\ Unwrap(env0.latest_block_info).number + 1 \notin DOMAIN env0.payload_attributes
    /\ Unwrap(env0.latest_block_info).number + 1 \in DOMAIN env.payload_attributes

\* The four predicates of the claim on peer p's header.
HeaderOf(p) == Unwrap(net.header_by_number[p].val)
HashMatch(p) == HeaderOf(p).hash = net.get_payload_v3[p].val.block_hash
ZeroDifficulty(p) == HeaderOf(p).difficulty = 0
MixHashMatch(p) == HeaderOf(p).mix_hash = Unwrap(env0.latest_payload_built).prev_randao
LongExtraData(p) == HeaderOf(p).extra_data_len > 32
AllFour(p) == HashMatch(p) /\ ZeroDifficulty(p) /\ MixHashMatch(p) /\ LongExtraData(p)
\* The peers checked so far, and those of them that were accepted.
Checked == { loc.verdicts[k].peer : k \in 1..Len(loc.verdicts) }
AcceptedPeers ==
    { loc.verdicts[k].peer :
        k \in { j \in 1..Len(loc.verdicts) : loc.verdicts[j].verdict = "passed" } }

(* C6: CheckPayloadAccepted accepts a checked peer if and only if all four *)
(* predicates hold for it (hash match, zero difficulty, mix-hash equal to  *)
(* the built payload's prev_randao, extra-data longer than 32); a peer     *)
(* failing any of them is skipped; accepted_check is set exactly when a    *)
(* peer was accepted.                                                      *)
C6_AcceptedIffAllFour ==
    Active("CheckPayloadAccepted") =>
        /\ \A p \in Checked : p \in AcceptedPeers <=> AllFour(p)
        /\ loc.accepted_check <=> AcceptedPeers # {}
        /\ Checked = 0..(Len(loc.verdicts) - 1)

\* One peer was accepted, and a peer that differs from it only in having
\* extra-data of exactly 32 bytes was skipped.
C6_Witness ==
    /\ Finished("CheckPayloadAccepted")
    /\ \E p \in Checked, q \in Checked :
          /\ p \in AcceptedPeers
          /\ q \notin AcceptedPeers
          /\ HashMatch(q) /\ ZeroDifficulty(q) /\ MixHashMatch(q)
          /\ HeaderOf(q).extra_data_len = 32

\* The Environment after the header of peer p was saved.
WithHeaderOf(p) ==
    [env0 EXCEPT
        !.latest_block_info =
            Some([hash |-> HeaderOf(p).hash, number |-> HeaderOf(p).number]),
        !.latest_fork_choice_state.head_block_hash = HeaderOf(p).hash,
        !.latest_header_time = Unwrap(env0.latest_payload_built).timestamp]
Min(S) == CHOOSE x \in S : \A y \in S : x <= y
Passing == { p \in Checked : AllFour(p) }

(* C7: CheckPayloadAccepted updates the Environment once, from the first   *)
(* peer in index order that passes all four checks: until a peer passes    *)
(* the Environment is unchanged, from then on it is the starting one with  *)
(* latest_block_info and head_block_hash taken from that peer's header and *)
(* latest_header_time from the built payload; peers after it are still     *)
(* scanned (a run that no call failure ends checks every peer).            *)
C7_UpdateFromFirstPassingPeer ==
    Active("CheckPayloadAccepted") =>
        /\ env = IF Passing = {} THEN env0 ELSE WithHeaderOf(Min(Passing))
        /\ (Finished("CheckPayloadAccepted") /\ LastResult \in {"Ok", ErrNotAccepted})
              => Len(loc.verdicts) = num_clients

\* Peer 0 failed a check, peer 1 passed: success, with peer 1's header.
C7_Witness ==
    /\ Finished("CheckPayloadAccepted")
    /\ LastResult = "Ok"
    /\ Checked = {0, 1}
    /\ Passing = {1}
    /\ HeaderOf(0).hash # HeaderOf(1).hash
    /\ Unwrap(env.latest_block_info).hash = HeaderOf(1).hash
    /\ env.latest_fork_choice_state.head_block_hash = HeaderOf(1).hash
    /\ env.latest_header_time = Unwrap(env0.latest_payload_built).timestamp
    /\ env # env0

\* The preconditions of CheckPayloadAccepted held when it began.
CheckPre ==
    /\ IsSome(env0.latest_block_info)
    /\ Unwrap(env0.latest_block_info).number + 1 \in DOMAIN env0.payload_id_history
    /\ IsSome(env0.latest_payload_built)

(* C8 as stated: with its preconditions met, CheckPayloadAccepted returns  *)
(* success if and only if at least one peer passed all four checks.        *)
C8_OkIffSomePeerPassed ==
    (Finished("CheckPayloadAccepted") /\ CheckPre) =>
        (LastResult = "Ok" <=> Passing # {})

(* C8 amended: with its preconditions met, CheckPayloadAccepted returns    *)
(* success if and only if every peer answered both calls (a latest header  *)
(* and the built payload) and at least one peer passed all four checks;    *)
(* otherwise it returns failure.                                           *)
C8_OkIffPassedAndAllAnswered ==
    (Finished("CheckPayloadAccepted") /\ CheckPre) =>
        /\ LastResult = "Ok" <=>
              /\ \A p \in Peers : /\ net.header_by_number[p].tag = "Ok"
                                  /\ IsSome(net.header_by_number[p].val)
                                  /\ net.get_payload_v3[p].tag = "Ok"
              /\ \E p \in Peers : AllFour(p)
        /\ LastResult # "Ok" => IsErr(LastResult)

\* A peer passed all four checks and the action still failed.
C8_Witness ==
    /\ Finished("CheckPayloadAccepted")
    /\ CheckPre
    /\ Passing # {}
    /\ IsErr(LastResult)

\* The new-payload status peer p returned.
StatusOf(p) == net.new_payload_v3[p]
ReturnedValid(p) ==
    /\ \E c \in inflight \cup { calls[k] : k \in 1..Len(calls) } :
           c.peer = p /\ c.api = "new_payload_v3"
    /\ \A c \in inflight : ~(c.peer = p /\ c.api = "new_payload_v3")
    /\ StatusOf(p) = RpcOk("Valid")

(* C9: BroadcastNextNewPayload stops at the first peer, in index order,    *)
(* whose new-payload response is Valid: once a peer has returned Valid the *)
(* action has returned Ok with latest_payload_executed set to              *)
(* latest_payload_built, that peer is the last one called, and every peer  *)
(* before it was called and returned a status other than Valid.            *)
C9_StopsAtFirstValid ==
    Active("BroadcastNextNewPayload") =>
        /\ \A p \in Peers : ReturnedValid(p) =>
              /\ Finished("BroadcastNextNewPayload")
              /\ LastResult = "Ok"
              /\ env.latest_payload_executed = env0.latest_payload_built
              /\ IsSome(env.latest_payload_executed)
              /\ \A k \in 1..Len(calls) : calls[k].peer <= p
              /\ Last(calls).peer = p
              /\ PeersCalled = [k \in 1..(2 * (p + 1)) |-> (k - 1) \div 2]
              /\ \A q \in 0..(p - 1) :
                     StatusOf(q).tag = "Ok" /\ StatusOf(q).val # "Valid"
        /\ (Finished("BroadcastNextNewPayload") /\ LastResult = "Ok") =>
              \E p \in Peers : ReturnedValid(p)

\* Three peers, peer 0 Invalid, peer 1 Valid: peer 2 was never called, though
\* it would have answered Valid too.
C9_Witness ==
    /\ Finished("BroadcastNextNewPayload")
    /\ num_clients = 3
    /\ LastResult = "Ok"
    /\ PeersCalled = <<0, 0, 1, 1>>
    /\ StatusOf(0) = RpcOk("Invalid")
    /\ StatusOf(1) = RpcOk("Valid")
    /\ StatusOf(2) = RpcOk("Valid")
    /\ env0.latest_payload_executed # env0.latest_payload_built
    /\ env.latest_payload_executed = env0.latest_payload_built

\* Peer p has returned a latest block whose number or parent-beacon root is
\* not the expected one.
ReturnedMismatch(p) ==
    LET r == net.block_by_number[p]
    IN  /\ HasReturned(Call(p, "block_by_number", "latest"))
        /\ r.tag = "Ok"
        /\ IsSome(r.val)
        /\ \/ Unwrap(r.val).number # Unwrap(env0.latest_block_info).number
           \/ Unwrap(r.val).parent_beacon_block_root #
                  Unwrap(env0.latest_payload_built).parent_beacon_block_root
\* Peer p would have been submitted the payload and would have answered Valid.
WouldAccept(p) ==
    LET r == net.block_by_number[p]
    IN  /\ r.tag = "Ok"
        /\ IsSome(r.val)
        /\ Unwrap(r.val).number = Unwrap(env0.latest_block_info).number
        /\ Unwrap(r.val).parent_beacon_block_root =
               Unwrap(env0.latest_payload_built).parent_beacon_block_root
        /\ StatusOf(p) = RpcOk("Valid")

(* C10: when a visited peer's latest block has a number other than         *)
(* latest_block_info.number, or a parent-beacon root other than that of    *)
(* latest_payload_built, BroadcastNextNewPayload has failed at that peer:  *)
(* the call that fetched the block is the last call made (no payload was   *)
(* submitted to the peer, no later peer was called) and                    *)
(* latest_payload_executed is unchanged.                                   *)
C10_MismatchFailsAtOnce ==
    (Active("BroadcastNextNewPayload") /\ IsSome(env0.latest_block_info)) =>
        \A p \in Peers : ReturnedMismatch(p) =>
            /\ Finished("BroadcastNextNewPayload")
            /\ LastResult \in {ErrBlockNumber, ErrNoBlockRoot, ErrRootMismatch}
            /\ Last(calls) = Call(p, "block_by_number", "latest")
            /\ \A k \in 1..Len(calls) : calls[k].peer <= p
            /\ env.latest_payload_executed = env0.latest_payload_executed

\* Peer 0 reported another block number and the action failed there, though
\* peer 1 would have accepted the payload.
C10_Witness ==
    /\ Finished("BroadcastNextNewPayload")
    /\ num_clients >= 2
    /\ IsSome(env0.latest_block_info)
    /\ ReturnedMismatch(0)
    /\ Unwrap(net.block_by_number[0].val).number # Unwrap(env0.latest_block_info).number
    /\ WouldAccept(1)
    /\ LastResult = ErrBlockNumber
    /\ PeersCalled = <<0>>
    /\ IsSome(env0.latest_payload_executed)
    /\ env.latest_payload_executed = env0.latest_payload_executed

\* The leaves ProduceBlocks(n) executes when no step fails.
RECURSIVE PairTimes(_)
PairTimes(n) ==
    IF n = 0 THEN <<>>
    ELSE <<"PickNextBlockProducer", "GeneratePayloadAttributes">> \o PairTimes(n - 1)
ProduceN == program[1].num_blocks
\* The outermost Sequence has returned.
RunOver == stack = <<>>

(* C11: ProduceBlocks(n) executes Pick, Generate, Pick, Generate, ... : the *)
(* completed steps are a prefix of n such pairs and only the last of them  *)
(* can have failed; it returns Ok only after exactly n pairs, all Ok; it   *)
(* returns the failure of the step that failed, after which no step runs;  *)
(* for n = 0 it returns Ok with the Environment untouched and no peer      *)
(* called.                                                                 *)
C11_ProduceBlocksPairs ==
    LET expected == PairTimes(ProduceN)
        n == Len(history)
    IN  /\ n <= Len(expected)
        /\ \A k \in 1..n : history[k].kind = expected[k]
        /\ \A k \in 1..(n - 1) : history[k].result = "Ok"
        /\ cur # "none" => /\ n < Len(expected)
                           /\ cur = expected[n + 1]
                           /\ AllOk(history)
        /\ RunOver =>
              /\ ret = "Ok" <=> (n = 2 * ProduceN /\ AllOk(history))
              /\ ret # "Ok" => n >= 1 /\ ret = history[n].result /\ IsErr(ret)
        /\ ProduceN = 0 => history = <<>> /\ calls = <<>> /\ env = env0
                           /\ cur = "none" /\ (RunOver => ret = "Ok")

\* ProduceBlocks(3) has returned Ok after three pairs.
C11_Witness ==
    /\ ProduceN = 3
    /\ RunOver
    /\ ret = "Ok"
    /\ Len(history) = 6
    /\ [k \in 1..6 |-> history[k].kind] = PairTimes(3)

\* The reply of peer p to the fork-choice update.
FcuOf(p) == net.fork_choice_updated[p]
ForkchoicePre == num_clients >= 1 /\ IsSome(env0.latest_block_info)

(* C12: BroadcastLatestForkchoice calls the peers in ascending index order *)
(* from peer 0, one call each; every peer called before the last one       *)
(* answered without a call failure; it fails as soon as a call fails, with *)
(* no higher peer called; it returns Ok only after all peers were called   *)
(* and none of the calls failed; it never changes the Environment.         *)
C12_ForkchoiceAbortsOnCallFailure ==
    Active("BroadcastLatestForkchoice") /\ ForkchoicePre =>
        /\ env = env0
        /\ Len(calls) <= num_clients
        /\ \A k \in 1..Len(calls) :
              /\ calls[k] = ForkchoiceCall(k - 1)
              /\ k < Len(calls) => ~IsRpcErr(FcuOf(k - 1))
        /\ Finished("BroadcastLatestForkchoice") =>
              /\ LastResult = "Ok" <=>
                    /\ Len(calls) = num_clients
                    /\ \A p \in Peers : ~IsRpcErr(FcuOf(p))
              /\ LastResult # "Ok" =>
                    /\ calls # <<>>
                    /\ IsRpcErr(FcuOf(Len(calls) - 1))
                    /\ LastResult = ErrForkchoice

\* Three peers: peer 0 answered, the call to peer 1 failed, peer 2 was never
\* called although its call would not have failed.
C12_Witness ==
    /\ Finished("BroadcastLatestForkchoice")
    /\ num_clients = 3
    /\ PeersCalled = <<0, 1>>
    /\ IsErr(LastResult)
    /\ ~IsRpcErr(FcuOf(0))
    /\ IsRpcErr(FcuOf(1))
    /\ ~IsRpcErr(FcuOf(2))

(* C13: BroadcastLatestForkchoice reports success only if no peer answered *)
(* the fork-choice update with the payload status Invalid.                 *)
C13_SuccessOnlyIfAllAccepted ==
    Finished("BroadcastLatestForkchoice") /\ LastResult = "Ok" =>
        \A p \in Peers : FcuOf(p).val.payload_status # "Invalid"

\* At most one peer call is outstanding, and it is the one issued last.
OneAtATime ==
    /\ Cardinality(inflight) <= 1
    /\ inflight # {} => calls # <<>> /\ inflight = {Last(calls)}
\* The peers were called in ascending index order.
Ascending == \A j, k \in 1..Len(calls) : j < k => calls[j].peer <= calls[k].peer
\* From peer 0 on without a gap.
FromZero ==
    /\ calls # <<>> => calls[1].peer = 0
    /\ \A k \in 2..Len(calls) : calls[k].peer \in {calls[k - 1].peer, calls[k - 1].peer + 1}
\* The action of the run.
TheAction == program[1].kind

(* C14 as stated: in each of the four actions the peers are visited in     *)
(* ascending index order and no two peer calls are outstanding at once.    *)
C14_AscendingOneAtATime == OneAtATime /\ Ascending

(* C14: in each of the four actions at most one peer call is outstanding   *)
(* and a call has returned before the next is issued; the peers are called *)
(* in ascending index order from peer 0 by BroadcastLatestForkchoice,      *)
(* CheckPayloadAccepted and BroadcastNextNewPayload, and in the rotation   *)
(* (N+1) mod P, (N+2) mod P, ... by PickNextBlockProducer.                 *)
C14_OneAtATimeInScanOrder ==
    /\ OneAtATime
    /\ TheAction # "PickNextBlockProducer" => Ascending /\ FromZero
    /\ TheAction = "PickNextBlockProducer" /\ calls # <<>> =>
          /\ Len(calls) <= num_clients
          /\ PeersCalled = SubSeq(ScanOrder(Unwrap(env0.latest_block_info).number,
                                            num_clients), 1, Len(calls))

\* PickNextBlockProducer on two peers with N = 0 has called peer 1 and then,
\* after that call returned, peer 0.
C14_Witness ==
    /\ TheAction = "PickNextBlockProducer"
    /\ num_clients = 2
    /\ PeersCalled = <<1, 0>>
    /\ inflight = {Call(0, "block_by_number", "latest")}

\* The node_idx of the AssertMineBlock of the run, and what that peer answers.
MineIdx == program[1].node_idx
MineInRange == MineIdx < num_clients
MineBlockFound ==
    LET r == net.block_by_number[MineIdx] IN r.tag = "Ok" /\ IsSome(r.val)
MineFcuValidWithId ==
    LET r == net.fork_choice_updated[MineIdx]
    IN  r.tag = "Ok" /\ r.val.payload_status = "Valid" /\ IsSome(r.val.payload_id)
MinePayloadFetched == net.get_payload_v2[MineIdx].tag = "Ok"
CalledApi(api) == \E k \in 1..Len(calls) : calls[k].api = api

(* C15: AssertMineBlock returns Ok exactly when node_idx is within the     *)
(* peer list, that peer returned a latest block, answered the fork-choice  *)
(* update with status Valid and a payload id, and returned the payload;    *)
(* with node_idx out of range it fails with no peer called; after a        *)
(* non-Valid status or a missing payload id it fails with no get-payload   *)
(* call; every call goes to peer node_idx.                                 *)
C15_MineSucceedsIff ==
    Finished("AssertMineBlock") =>
        /\ LastResult = "Ok" <=>
              /\ MineInRange
              /\ MineBlockFound
              /\ MineFcuValidWithId
              /\ MinePayloadFetched
        /\ ~MineInRange => LastResult = ErrNodeIndex /\ calls = <<>>
        /\ \A k \in 1..Len(calls) : calls[k].peer = MineIdx
        /\ MineInRange /\ CalledApi("fork_choice_updated_v2")
             /\ net.fork_choice_updated[MineIdx].tag = "Ok"
             /\ ~MineFcuValidWithId =>
              /\ IsErr(LastResult)
              /\ ~CalledApi("get_payload_v2")
        /\ env = env0

\* The peer answered the fork-choice update with a payload id and a status
\* other than Valid: the action failed without asking for the payload.
C15_Witness ==
    /\ Finished("AssertMineBlock")
    /\ MineInRange
    /\ MineIdx = 1
    /\ net.fork_choice_updated[MineIdx].tag = "Ok"
    /\ net.fork_choice_updated[MineIdx].val.payload_status = "Syncing"
    /\ IsSome(net.fork_choice_updated[MineIdx].val.payload_id)
    /\ LastResult = ErrStatusNotValid
    /\ Len(calls) = 2

\* GenerateNextPayload runs, or has run, right after a successful
\* GeneratePayloadAttributes that started from empty payload_attributes.
AfterGenerate ==
    /\ Len(program) = 2
    /\ Len(history) >= 1
    /\ history[1].result = "Ok"
    /\ IsSome(env0.latest_block_info)
    /\ DOMAIN env0.payload_attributes = {Unwrap(env0.latest_block_info).number + 1}
\* The attributes GenerateNextPayload sent with its fork-choice update.
SentAttributes == Unwrap(calls[1].arg.payload)

(* C16: after a GeneratePayloadAttributes that started from empty          *)
(* payload_attributes with latest_block_info set, the GenerateNextPayload  *)
(* that follows does not fail for missing attributes, and the attributes   *)
(* it sends are those stored under the key under which it records the      *)
(* payload id.                                                             *)
C16_StagedAttributesAreRead ==
    Finished("GenerateNextPayload") /\ AfterGenerate =>
        /\ LastResult # ErrNoAttributes
        /\ LastResult = "Ok" =>
              \E k \in DOMAIN env.payload_id_history :
                  /\ env.payload_id_history[k] = Unwrap(env.next_payload_id)
                  /\ k \in DOMAIN env.payload_attributes
                  /\ SentAttributes = env.payload_attributes[k]

\* What node 0 answered GenerateNextPayload.
FcuAnswered == /\ calls # <<>>
               /\ calls[1] \notin inflight
               /\ net.fork_choice_updated[0].tag = "Ok"
FcuGaveId == FcuAnswered /\ IsSome(net.fork_choice_updated[0].val.payload_id)
FcuGaveNoId == FcuAnswered /\ ~IsSome(net.fork_choice_updated[0].val.payload_id)
FcuId == Unwrap(net.fork_choice_updated[0].val.payload_id)
NextKey == Unwrap(env0.latest_block_info).number + 1

(* C17 as stated: whenever the fork-choice update returned a payload id,   *)
(* payload_id_history[latest_block_info.number + 1] holds that id when     *)
(* GenerateNextPayload ends.                                               *)
C17_IdRecordedWheneverReturned ==
    Finished("GenerateNextPayload") /\ FcuGaveId =>
        MapGet(env.payload_id_history, NextKey) = Some(FcuId)

(* C17: once the fork-choice update returned a payload id, next_payload_id *)
(* holds it; payload_id_history and latest_payload_built stay as they were *)
(* while the built payload is waited for and when its retrieval fails;     *)
(* they are written, the id under latest_block_info.number + 1, only when  *)
(* the retrieval succeeds, and then the action returns Ok.                 *)
C17_IdRecordedAfterRetrieval ==
    Active("GenerateNextPayload") /\ FcuGaveId =>
        /\ env.next_payload_id = Some(FcuId)
        /\ ~Finished("GenerateNextPayload") \/ IsErr(LastResult) =>
              /\ env.payload_id_history = env0.payload_id_history
              /\ env.latest_payload_built = env0.latest_payload_built
        /\ Finished("GenerateNextPayload") =>
              /\ LastResult = "Ok" <=> net.get_payload_v3[0].tag = "Ok"
              /\ LastResult = "Ok" =>
                    /\ env.payload_id_history =
                           MapInsert(env0.payload_id_history, NextKey, FcuId)
                    /\ env.latest_payload_built = Some(net.get_payload_v3[0].val)

\* The payload id came back, the retrieval of the built payload failed, and
\* the id is in next_payload_id but not in payload_id_history.
C17_Witness ==
    /\ Finished("GenerateNextPayload")
    /\ FcuGaveId
    /\ IsRpcErr(net.get_payload_v3[0])
    /\ LastResult = ErrTransport
    /\ env.next_payload_id = Some(FcuId)
    /\ env.payload_id_history = EmptyMap

(* C18: when the fork-choice-update response carries no payload id,        *)
(* GenerateNextPayload fails, never issues a get-payload call, and leaves  *)
(* next_payload_id, payload_id_history and latest_payload_built unchanged. *)
C18_NoPayloadIdFails ==
    Active("GenerateNextPayload") /\ FcuGaveNoId =>
        /\ Finished("GenerateNextPayload")
        /\ LastResult = ErrNoPayloadIdForkChoice
        /\ ~CalledApi("get_payload_v3")
        /\ env.next_payload_id = env0.next_payload_id
        /\ env.payload_id_history = env0.payload_id_history
        /\ env.latest_payload_built = env0.latest_payload_built

\* Node 0 answered Valid without a payload id.
C18_Witness ==
    /\ Finished("GenerateNextPayload")
    /\ FcuGaveNoId
    /\ net.fork_choice_updated[0].val.payload_status = "Valid"
    /\ LastResult = ErrNoPayloadIdForkChoice
    /\ Len(calls) = 1

\* The action failed at once: no peer was called and nothing was written.
FailedUntouched(kind, err) ==
    /\ Finished(kind)
    /\ LastResult = err
    /\ calls = <<>>
    /\ inflight = {}
    /\ env = env0
LatestNumber == Unwrap(env0.latest_block_info).number

(* C19: GenerateNextPayload with no payload_attributes entry under         *)
(* latest_block_info.number, and CheckPayloadAccepted with no              *)
(* payload_id_history entry under latest_block_info.number + 1, fail       *)
(* before any peer is called and leave the Environment unchanged.          *)
C19_MissingEntryFails ==
    /\ Active("GenerateNextPayload")
         /\ LatestNumber \notin DOMAIN env0.payload_attributes =>
           FailedUntouched("GenerateNextPayload", ErrNoAttributes)
    /\ Active("CheckPayloadAccepted")
         /\ LatestNumber + 1 \notin DOMAIN env0.payload_id_history =>
           FailedUntouched("CheckPayloadAccepted", ErrNoPayloadId)

\* GenerateNextPayload failed although attributes are stored under
\* latest_block_info.number + 1: the entry of another key is not used.
C19_Witness ==
    /\ FailedUntouched("GenerateNextPayload", ErrNoAttributes)
    /\ num_clients >= 1
    /\ DOMAIN env0.payload_attributes = {LatestNumber + 1}

\* What the peer answers to a call of the running action.
ReplyOf(c) ==
    IF c.api = "block_by_number" THEN net.block_by_number[c.peer]
    ELSE IF c.api = "header_by_number" THEN net.header_by_number[c.peer]
    ELSE IF c.api = "get_payload_v3" THEN net.get_payload_v3[c.peer]
    ELSE IF c.api = "new_payload_v3" THEN net.new_payload_v3[c.peer]
    ELSE net.fork_choice_updated[c.peer]
CallFailed(k) == calls[k] \notin inflight /\ IsRpcErr(ReplyOf(calls[k]))
ScanningSteps ==
    {"PickNextBlockProducer", "CheckPayloadAccepted", "BroadcastNextNewPayload"}

(* C20: in PickNextBlockProducer, CheckPayloadAccepted and                 *)
(* BroadcastNextNewPayload a peer call that returns an error ends the      *)
(* action with that failure: it is the last call the action made, so no    *)
(* later peer is contacted, and the action has returned the error.         *)
C20_CallFailureAborts ==
    TheAction \in ScanningSteps =>
        \A k \in 1..Len(calls) :
            CallFailed(k) => /\ k = Len(calls)
                             /\ Finished(TheAction)
                             /\ LastResult = ErrTransport

\* PickNextBlockProducer on two peers starting at peer 0: the call to peer 0
\* failed and peer 1, which reports the latest block, was never called.
C20_Witness ==
    /\ TheAction = "PickNextBlockProducer"
    /\ Finished("PickNextBlockProducer")
    /\ num_clients = 2
    /\ PeersCalled = <<0>>
    /\ CallFailed(1)
    /\ ReportsLatest(1, Unwrap(env0.latest_block_info))
    /\ LastResult = ErrTransport

\* The peers the running action has called, and the failures by exhaustion.
CalledPeers == { calls[k].peer : k \in 1..Len(calls) }
Exhaustion == {ErrNoProducer, ErrNotAccepted, ErrNotBroadcast}
\* Peer p returned what was asked of it and failed a predicate of the action:
\* a latest block other than latest_block_info (PickNextBlockProducer), one of
\* the four header checks (CheckPayloadAccepted), the block number or the
\* parent-beacon root (BroadcastNextNewPayload).
PredicateFailedAt(p) ==
    IF TheAction = "PickNextBlockProducer"
    THEN /\ HasReturned(Call(p, "block_by_number", "latest"))
         /\ net.block_by_number[p].tag = "Ok"
         /\ IsSome(net.block_by_number[p].val)
         /\ ~ReportsLatest(p, Unwrap(env0.latest_block_info))
    ELSE IF TheAction = "CheckPayloadAccepted"
    THEN p \in Checked \ AcceptedPeers
    ELSE ReturnedMismatch(p)
\* The action ended in failure right after peer p.
EndedInFailureAt(p) ==
    /\ Finished(TheAction)
    /\ IsErr(LastResult)
    /\ calls # <<>>
    /\ Last(calls).peer = p
ByExhaustion == CalledPeers = Peers /\ LastResult \in Exhaustion

(* C21 as stated: in the three scanning steps an action that ended in      *)
(* failure right after a peer's predicate failure did so by exhaustion:    *)
(* every peer had been scanned.                                            *)
C21_PredicateFailureNeverEnds ==
    TheAction \in ScanningSteps =>
        \A p \in Peers : PredicateFailedAt(p) /\ EndedInFailureAt(p) => ByExhaustion

(* C21: in PickNextBlockProducer and CheckPayloadAccepted an action that   *)
(* ended in failure right after a peer's predicate failure did so by       *)
(* exhaustion; in BroadcastNextNewPayload a status other than Valid lets   *)
(* the scan go on in the same way, but a wrong block number or a wrong     *)
(* parent-beacon root ends the action at that peer with that error,        *)
(* whether or not peers remain.                                            *)
C21_OnlyBroadcastMismatchEnds ==
    /\ TheAction \in {"PickNextBlockProducer", "CheckPayloadAccepted"} =>
          \A p \in Peers : PredicateFailedAt(p) /\ EndedInFailureAt(p) => ByExhaustion
    /\ TheAction = "BroadcastNextNewPayload" =>
          \A p \in Peers :
              /\ ReturnedMismatch(p) =>
                    /\ EndedInFailureAt(p)
                    /\ LastResult \in {ErrBlockNumber, ErrNoBlockRoot, ErrRootMismatch}
              /\ (/\ HasReturned(Call(p, "new_payload_v3", 0))
                  /\ StatusOf(p).tag = "Ok"
                  /\ StatusOf(p).val # "Valid"
                  /\ EndedInFailureAt(p)) => ByExhaustion

\* BroadcastNextNewPayload on two peers: peer 0 reported the expected block
\* number with another parent-beacon root, and the action ended there.
C21_Witness ==
    /\ TheAction = "BroadcastNextNewPayload"
    /\ num_clients = 2
    /\ ReturnedMismatch(0)
    /\ EndedInFailureAt(0)
    /\ LastResult = ErrRootMismatch
    /\ CalledPeers = {0}

\* Map m2 keeps every entry of map m1 as it is.
KeepsEntries(m1, m2) ==
    \A k \in DOMAIN m1 : k \in DOMAIN m2 /\ m2[k] = m1[k]

(* C22: once payload_attributes holds an entry for a block number, no step *)
(* of any action replaces or removes that entry.                           *)
C22_AttributesWrittenOnce ==
    [][KeepsEntries(env.payload_attributes, env'.payload_attributes)]_vars

(* C23: once payload_id_history holds a payload id for a block number, no  *)
(* step of any action changes or removes that entry.                       *)
C23_HistoryAppendOnly ==
    [][KeepsEntries(env.payload_id_history, env'.payload_id_history)]_vars

\* The sequence of the calls of a GenerateNextPayload that runs to its end.
NextPayloadApis == <<"fork_choice_updated_v3", "get_payload_v3">>

(* C24: every call of GenerateNextPayload goes to peer 0, whatever         *)
(* last_producer_idx holds: first the fork-choice update, whose state has  *)
(* head, safe and finalized all equal to latest_block_info.hash, then the  *)
(* get-payload call; a run that returns Ok has made both.                  *)
C24_OnlyPeerZero ==
    Active("GenerateNextPayload") =>
        /\ Len(calls) <= 2
        /\ \A k \in 1..Len(calls) :
              /\ calls[k].peer = 0
              /\ calls[k].api = NextPayloadApis[k]
        /\ calls # <<>> =>
              LET hash == Unwrap(env0.latest_block_info).hash
              IN  calls[1].arg.fork_choice_state =
                      [head_block_hash |-> hash, safe_block_hash |-> hash,
                       finalized_block_hash |-> hash]
        /\ Finished("GenerateNextPayload") /\ LastResult = "Ok" => Len(calls) = 2

\* PickNextBlockProducer chose peer 1 of two, and the GenerateNextPayload that
\* followed built and fetched the payload on peer 0.
C24_Witness ==
    /\ Finished("GenerateNextPayload")
    /\ LastResult = "Ok"
    /\ num_clients = 2
    /\ Len(history) = 2
    /\ history[1] = [kind |-> "PickNextBlockProducer", result |-> "Ok"]
    /\ env.last_producer_idx = Some(1)
    /\ PeersCalled = <<0, 0>>
    /\ Unwrap(env0.latest_block_info).hash = 1

\* No call of the running action was made twice: each endpoint of each peer
\* is asked at most once.
NoRepeatedCall ==
    \A j, k \in 1..Len(calls) :
        j # k => ~(calls[j].peer = calls[k].peer /\ calls[j].api = calls[k].api)
\* The leaf actions a list of actions executes when none fails.
RECURSIVE Executions(_)
Executions(actions) ==
    IF actions = <<>> THEN <<>>
    ELSE LET a == Head(actions)
         IN  (IF a.kind \in LeafKinds THEN <<a.kind>>
              ELSE IF a.kind = "ProduceBlocks" THEN PairTimes(a.num_blocks)
              ELSE Executions(a.actions))
             \o Executions(Tail(actions))
\* The actions executed are a prefix of those: none was executed again.
NoRetry ==
    /\ Len(history) <= Len(Executions(program))
    /\ \A k \in 1..Len(history) : history[k].kind = Executions(program)[k]

(* C25: within one execution of an action each endpoint of each peer is    *)
(* called at most once and no failed action is executed again; provided    *)
(* every peer call returns, every run of an action or of a finite Sequence *)
(* ends: the outermost Sequence returns success or failure.                *)
C25_NoRetryTerminates ==
    /\ [](NoRepeatedCall /\ NoRetry)
    /\ <>(RunOver /\ ret # "none")

\* CheckPayloadAccepted has finished on two peers after asking each of them
\* once for its header and once for the built payload.
C25_Witness ==
    /\ RunOver
    /\ Finished("CheckPayloadAccepted")
    /\ num_clients = 2
    /\ PeersCalled = <<0, 0, 1, 1>>
    /\ NoRepeatedCall

(* C26: whenever CheckPayloadAccepted returns failure, latest_block_info,  *)
(* latest_header_time and latest_fork_choice_state have the values they    *)
(* had when the action started.                                            *)
C26_FailureLeavesContext ==
    Finished("CheckPayloadAccepted") /\ IsErr(LastResult) =>
        /\ env.latest_block_info = env0.latest_block_info
        /\ env.latest_header_time = env0.latest_header_time
        /\ env.latest_fork_choice_state = env0.latest_fork_choice_state

(* C26 amended: when CheckPayloadAccepted returns failure,                 *)
(* latest_block_info, latest_header_time and latest_fork_choice_state have *)
(* their starting values if no peer had passed all four checks before the  *)
(* failure, which is always so for exhaustion and a missing precondition;  *)
(* when a peer had passed and the call to a later peer failed or returned  *)
(* no header, they hold the update made from the first passing peer.       *)
C26_FailureKeepsUnlessPeerPassed ==
    (Finished("CheckPayloadAccepted") /\ IsErr(LastResult)) =>
        /\ LastResult \in {ErrNoLatestBlockInfo, ErrNoPayloadId,
                           ErrNoBuiltPayload, ErrNotAccepted} => Passing = {}
        /\ Passing = {} =>
              /\ env.latest_block_info = env0.latest_block_info
              /\ env.latest_header_time = env0.latest_header_time
              /\ env.latest_fork_choice_state = env0.latest_fork_choice_state
        /\ Passing # {} =>
              /\ LastResult \in {ErrTransport, ErrNoHeader}
              /\ env.latest_block_info = WithHeaderOf(Min(Passing)).latest_block_info
              /\ env.latest_header_time = WithHeaderOf(Min(Passing)).latest_header_time
              /\ env.latest_fork_choice_state =
                     WithHeaderOf(Min(Passing)).latest_fork_choice_state

\* Peer 0 passed, the call to peer 1 failed: failure with the context changed.
C26_Witness ==
    /\ Finished("CheckPayloadAccepted")
    /\ LastResult = ErrTransport
    /\ Passing = {0}
    /\ num_clients = 2
    /\ env.latest_block_info # env0.latest_block_info
    /\ env.latest_header_time # env0.latest_header_time

\* Some execution of CheckPayloadAccepted in this run has accepted a peer: the
\* running one has set accepted_check, or an earlier one returned success.
HasAccepted ==
    \/ Active("CheckPayloadAccepted") /\ loc.accepted_check
    \/ \E k \in 1..Len(history) :
          history[k].kind = "CheckPayloadAccepted" /\ history[k].result = "Ok"
HeadIsLatest ==
    /\ IsSome(env.latest_block_info)
    /\ env.latest_fork_choice_state.head_block_hash = Unwrap(env.latest_block_info).hash
CheckKeepsSafeAndFinalized ==
    cur = "CheckPayloadAccepted" =>
        /\ env'.latest_fork_choice_state.safe_block_hash =
               env.latest_fork_choice_state.safe_block_hash
        /\ env'.latest_fork_choice_state.finalized_block_hash =
               env.latest_fork_choice_state.finalized_block_hash

(* C27: once an execution of CheckPayloadAccepted has accepted a peer,     *)
(* latest_fork_choice_state.head_block_hash equals latest_block_info.hash  *)
(* in every later state, whatever actions run afterwards; no step of       *)
(* CheckPayloadAccepted changes the safe and finalized hashes.             *)
C27_HeadFollowsLatestBlock ==
    /\ [](HasAccepted => HeadIsLatest)
    /\ [][CheckKeepsSafeAndFinalized]_vars

\* CheckPayloadAccepted moved the head and the latest block to the accepted
\* header's hash 1, and another action has finished after it.
C27_Witness ==
    /\ Len(history) = 2
    /\ history[1] = [kind |-> "CheckPayloadAccepted", result |-> "Ok"]
    /\ history[2].result = "Ok"
    /\ HeadIsLatest
    /\ env.latest_fork_choice_state.head_block_hash = 1
    /\ env.latest_fork_choice_state.finalized_block_hash = 0

\* The payload id recorded, when the action started, for the block after
\* the latest one.
IdAtStart ==
    env0.payload_id_history[Unwrap(env0.latest_block_info).number + 1]

(* C28: within one execution of CheckPayloadAccepted every peer is asked   *)
(* for the built payload under the same payload id, the one recorded for   *)
(* (latest_block_info.number at the start of the action) + 1, also the     *)
(* peers scanned after an accepted peer has advanced the number.           *)
C28_SamePayloadIdForEveryPeer ==
    Active("CheckPayloadAccepted") =>
        \A k \in 1..Len(calls) :
            calls[k].api = "get_payload_v3" => calls[k].arg = IdAtStart

\* Peer 0 was accepted and advanced latest_block_info.number to 1, a different
\* id is recorded for number 2, and peer 1 was asked under the id of number 1.
C28_Witness ==
    /\ Active("CheckPayloadAccepted")
    /\ AcceptedPeers = {0}
    /\ Unwrap(env0.latest_block_info).number = 0
    /\ Unwrap(env.latest_block_info).number = 1
    /\ MapGet(env.payload_id_history, 2) = Some(2)
    /\ HasReturned(Call(1, "get_payload_v3", 1))

\* This step is the return of a successful PickNextBlockProducer.
PickSucceeds ==
    cur = "PickNextBlockProducer" /\ cur' = "none" /\ ret' = "Ok"
\* idx is a valid peer index whose reported latest block equals
\* latest_block_info.
MatchingPeer(idx) ==
    /\ idx \in 0..(num_clients - 1)
    /\ net.block_by_number[idx].tag = "Ok"
    /\ IsSome(net.block_by_number[idx].val)
    /\ Unwrap(net.block_by_number[idx].val).hash = Unwrap(env.latest_block_info).hash
    /\ Unwrap(net.block_by_number[idx].val).number = Unwrap(env.latest_block_info).number
WritesProducerOnlyOnSuccess ==
    IF PickSucceeds
    THEN /\ IsSome(env'.last_producer_idx)
         /\ MatchingPeer(Unwrap(env'.last_producer_idx))
    ELSE env'.last_producer_idx = env.last_producer_idx
PickedBefore ==
    \E k \in 1..Len(history) :
        history[k] = [kind |-> "PickNextBlockProducer", result |-> "Ok"]

(* C29: last_producer_idx is written only by the return of a successful    *)
(* PickNextBlockProducer, with the index (less than the peer count) of a   *)
(* peer whose reported latest block equalled latest_block_info; every      *)
(* other step, those of a failing PickNextBlockProducer and of the other   *)
(* actions included, leaves it unchanged, so after a successful pick it    *)
(* always holds a valid index.                                             *)
C29_ProducerWrittenOnlyBySuccessfulPick ==
    /\ [][WritesProducerOnlyOnSuccess]_vars
    /\ [](PickedBefore => /\ IsSome(env.last_producer_idx)
                          /\ Unwrap(env.last_producer_idx) < num_clients)

\* A PickNextBlockProducer chose peer 1, and a later one failed and left the
\* index in place.
C29_Witness ==
    /\ num_clients = 2
    /\ Len(history) = 3
    /\ history[1] = [kind |-> "PickNextBlockProducer", result |-> "Ok"]
    /\ history[3].kind = "PickNextBlockProducer"
    /\ IsErr(history[3].result)
    /\ env.last_producer_idx = Some(1)

=============================================================================
